---- MODULE Spec2Model ----
(***************************************************************************)
(* Verification model of the KajovoNG run orchestrator (kajovo/core).      *)
(*                                                                         *)
(* The module holds several specifications over one set of variables, one  *)
(* per subsystem:                                                          *)
(*   SpecOut      RunWorker._save_out_files (output stage)                 *)
(*   SpecReceipt  ReceiptDB + PricingAuditor.audit + orchestrator inserts  *)
(*   SpecWorkers  RunWorker.run (plan, structure, per-file chunks, stop,   *)
(*                terminal status, receipts) and CascadeRunWorker.run      *)
(*                (step loop, placeholders, expected output files); the    *)
(*                UI starts one of the two per run                         *)
(*   SpecRun      RunWorker.run in every mode (GENERATE, MODIFY, QA, QFILE, *)
(*                batch): capability checks, remote calls and stop checks, *)
(*                receipts, terminal status and signal                     *)
(*   SpecLog      RunLogger: redaction of events, run state and JSON blobs *)
(*   SpecRetry    with_retry around OpenAIClient._req, with the breaker     *)
(*   SpecDef      CascadeDefinition.to_dict followed by from_dict           *)
(*   SpecPrice    PriceTable: updates, refreshes and the cache file         *)
(*   SpecSplit    split_text of the pipeline and of the capability module   *)
(*   SpecPaths    validate_paths                                            *)
(*   SpecGen      GENERATE / MODIFY: plan, structure, per-file chunk loop   *)
(*   SpecUpload   IN directory of a MODIFY run: archive, scan, mirror upload *)
(*   SpecPayload  temperature and file_search tools in RunWorker's payloads  *)
(*   SpecProbe    capability probe of one model, cache save and load         *)
(*   SpecIngest   long prompt ingest (A0) up to the first plan request       *)
(*   SpecLabel    response file names (save_json) and the auditor's label    *)
(*   SpecStop     UI stop escalation (on_stop, force kill) against the run   *)
(*   SpecState    update_state of the loggers on run_state.json             *)
(* A specification leaves the variables of the other subsystems at their   *)
(* idle values.                                                            *)
(*                                                                         *)
(* Strings that the code transforms (paths, placeholders) are sequences of *)
(* one-character strings; paths are POSIX (os.sep = "/").                  *)
(***************************************************************************)
EXTENDS Integers, Sequences, FiniteSets, TLC

VARIABLES
    \* ---- output stage --------------------------------------------------
    outFiles,      \* the files list handed to _save_out_files (rel paths)
    outIdx,        \* loop index of the for-loop (number of files handled)
    outSaved,      \* the `saved` list: records [rel, dst]
    outDiskFiles,  \* regular files on disk (resolved absolute segment lists)
    outDiskDirs,   \* directories on disk (resolved absolute segment lists)
    outStatus,     \* "idle" | "saving" | "saved" | "failed" | "stopped"
    outStop        \* RunWorker._stop as seen by the output stage

outVars == <<outFiles, outIdx, outSaved, outDiskFiles, outDiskDirs, outStatus, outStop>>

VARIABLES
    \* ---- receipt store, LOG tree, auditor -------------------------------
    rcRows,        \* table `receipts`: sequence of rows, row id = position
    rcPrice,       \* current price of one token in the shared PriceTable
    rcDir,         \* rcDir[k]: run directory LOG/RUN_k exists
    rcFiles,       \* rcFiles[k]: responses/*.json of run k in mtime order
    rcNextResp,    \* next response id the remote service hands out
    orchPc,        \* orchPc[k]: "absent" | "running" | "done"
    auPc,          \* "idle" | "scan" | "files" | "done"
    auIdx,         \* the dedup index loaded by existing_index()
    auRunList,     \* run directories listed by _iter_run_dirs
    auRun,         \* position in auRunList
    auFileN,       \* number of response files listed for the current run
    auFile,        \* position in the listed response files
    auInserted,    \* rows this audit() inserted (summary inserted + missing)
    auSeen,        \* response ids this audit() read from response files
    auCount,       \* audits started so far
    auClean,       \* no orchestrator step since the latest audit began
    auQuiet        \* a previous audit returned and nothing but audits ran since it began

rcVars == <<rcRows, rcPrice, rcDir, rcFiles, rcNextResp, orchPc, auPc, auIdx, auRunList,
            auRun, auFileN, auFile, auInserted, auSeen, auCount, auClean, auQuiet>>

VARIABLES
    \* ---- a worker thread: what RunWorker and CascadeRunWorker share ------
    wkWorker,      \* "none" | "run" (RunWorker) | "cascade" (CascadeRunWorker)
    wkPc,          \* position of the thread inside run()
    wkStop,        \* self._stop
    wkStatus,      \* run_state.json "status" ("absent" before the logger exists)
    wkSignal,      \* "none" | "finished_ok" | "finished_err"
    wkExc          \* str(e) of the exception being unwound, "none" if none

wkVars == <<wkWorker, wkPc, wkStop, wkStatus, wkSignal, wkExc>>

VARIABLES
    \* ---- RunWorker (GENERATE / MODIFY, not batch, not resumed) -----------
    rwMode,        \* cfg.mode
    rwFilesN,      \* len(files) after the structure response
    rwOutFiles,    \* out_files: per file the sequence of parts joined into content
    rwChunk,       \* chunk_index
    rwAttempt,     \* attempt
    rwParts,       \* parts of the file being generated
    rwTotal,       \* <<_total_input_tokens, _total_output_tokens>>
    rwHasReceipt,  \* _has_receipt
    rwReceipts,    \* receipts this worker inserted, in order
    rwPrevIdErr,   \* _last_prev_id_error is set
    rwResp2,       \* usage of resp2, the structure response
    rwRecv,        \* sums of usage over the responses received so far
    rwStopAt       \* where _check_stop raised: "none" | "structure" | "file" | "chunk" | "save"

rwVars == <<rwMode, rwFilesN, rwOutFiles, rwChunk, rwAttempt, rwParts, rwTotal,
            rwHasReceipt, rwReceipts, rwPrevIdErr, rwResp2, rwRecv, rwStopAt>>

VARIABLES
    \* ---- CascadeRunWorker ------------------------------------------------
    ckN,           \* len(cfg.cascade.steps)
    ckIdx,         \* number of completed steps
    ckOutCfg,      \* <<cfg.out_dir, cascade.default_out_dir>>
    ckContext,     \* context: key -> value
    ckDiskFiles,   \* regular files on disk
    ckDiskDirs,    \* directories on disk
    ckNextFid,     \* next file id the remote service hands out
    ckPayload,     \* the request of the current step: placeholder used, its value, content parts
    ckJson,        \* parsed_json of the current step
    ckLast         \* what the latest completed step declared and produced

ckVars == <<ckN, ckIdx, ckOutCfg, ckContext, ckDiskFiles, ckDiskDirs, ckNextFid, ckPayload,
            ckJson, ckLast>>

VARIABLES
    \* ---- RunWorker.run in every mode, at the grain of its remote calls ---
    rnCfg,         \* the UiRunConfig fields that steer run()
    rnFiles,       \* [n, done]: files of the structure, files generated
    rnRemote,      \* a remote call has been issued
    rnAfterStop,   \* a remote call was started with _stop already set
    rnSwallowed,   \* a STOP_REQUESTED was caught by a handler other than run()'s
    rnHasReceipt,  \* _has_receipt
    rnReceipts,    \* receipts this run inserted, in order
    rnMsg          \* the argument of finished_err.emit, "" before

rnVars == <<rnCfg, rnFiles, rnRemote, rnAfterStop, rnSwallowed, rnHasReceipt,
            rnReceipts, rnMsg>>

VARIABLES
    \* ---- RunLogger: the files of a run directory ---------------------------
    lgEvents,      \* events.jsonl: the data of each line, as written
    lgState,       \* run_state.json: its entries, as written
    lgBlobs        \* the JSON blobs save_json wrote

lgVars == <<lgEvents, lgState, lgBlobs>>

VARIABLES
    \* ---- with_retry around OpenAIClient._req, and the CircuitBreaker --------
    rtPc,          \* "idle" | "loop" (with_retry) | "req" (inside _req) | "done"
    rtCalls,       \* with_retry calls made so far
    rtAttempt,     \* attempt of with_retry
    rtReqAttempt,  \* attempt of _req
    rtHttp,        \* HTTP requests sent by the current _req call
    rtHttpAll,     \* HTTP requests sent during the current with_retry call
    rtThunks,      \* invocations of fn during the current with_retry call
    rtFails,       \* breaker.on_failure() calls during the current with_retry call
    rtLast,        \* last
    rtLastOutcome, \* how the latest invocation of fn ended: "none" | "ok" | "transient" | "fatal"
    rtResult,      \* what with_retry returned or raised
    rtHard,        \* the counters when the first non-2xx, non-429/5xx response arrived
    brCount,       \* CircuitBreaker._count
    brOpen         \* time.time() < CircuitBreaker._open_until

rtVars == <<rtPc, rtCalls, rtAttempt, rtReqAttempt, rtHttp, rtHttpAll, rtThunks, rtFails,
            rtLast, rtLastOutcome, rtResult, rtHard, brCount, brOpen>>

VARIABLES
    \* ---- a cascade definition written with to_dict and read with from_dict --
    cdPc,          \* "made" | "dumped" | "loaded"
    cdDef,         \* the CascadeDefinition d
    cdData,        \* d.to_dict()
    cdBack         \* CascadeDefinition.from_dict(d.to_dict())

cdVars == <<cdPc, cdDef, cdData, cdBack>>

VARIABLES
    \* ---- PriceTable and its cache file --------------------------------------
    ptRows,        \* PriceTable.rows
    ptLastUpdated, \* PriceTable.last_updated, as the number of changes so far
    ptVerified,    \* PriceTable.verified
    ptFile,        \* the cache file
    ptStage,       \* "updated", then "saved", then "loaded"; "none" otherwise
    ptR,           \* the rows the latest update_from_rows was given
    ptPrev         \* PriceTable.rows before that update

ptVars == <<ptRows, ptLastUpdated, ptVerified, ptFile, ptStage, ptR, ptPrev>>

VARIABLES
    \* ---- split_text -----------------------------------------------------------
    stText,        \* text
    stK,           \* max_chars
    stOut,         \* what pipeline.split_text returned, <<>> before the call
    stCapsOut,     \* what model_capabilities.split_text returned, <<>> before the call
    \* ---- validate_paths -------------------------------------------------------
    vpFiles,       \* files
    vpResult       \* "none" before the call, then "ok" or "ContractError"

stVars == <<stText, stK, stOut, stCapsOut>>
vpVars == <<vpFiles, vpResult>>

VARIABLES
    \* ---- GENERATE / MODIFY: plan, structure, chunk loop -----------------------
    gnPc,          \* "idle", "plan", "structure", "file", "while", "wait", "save", "done", "failed", "stopped"
    gnMode,        \* cfg.mode
    gnStop,        \* self._stop
    gnReq,         \* the create_response request sent last
    gnInFlight,    \* requests sent and not answered yet
    gnSent,        \* requests sent by the plan and by the structure stage
    gnResp1,       \* resp1_id
    gnResp2,       \* resp2_id
    gnLastId,      \* id of the response received last
    gnFiles,       \* files / touched after the filter
    gnFileIdx,     \* index of the file being generated
    gnChunk,       \* chunk_index
    gnPass,        \* passes of `while True` for the file
    gnAttempt,     \* attempt
    gnBad,         \* responses that failed the check for this file and chunk_index
    gnParts,       \* parts
    gnOut,         \* out_files
    gnWritten,     \* files written by _save_out_files
    gnEvents,      \* events of the run log
    gnPrevIdErr,   \* _last_prev_id_error is set
    gnExc,         \* the exception that ended the run
    gnMsg          \* the error message of the run

gnVars == <<gnPc, gnMode, gnStop, gnReq, gnInFlight, gnSent, gnResp1, gnResp2, gnLastId, gnFiles,
            gnFileIdx, gnChunk, gnPass, gnAttempt, gnBad, gnParts, gnOut, gnWritten, gnEvents,
            gnPrevIdErr, gnExc, gnMsg>>

VARIABLES
    \* ---- update_state of RunLogger / CascadeLogger ----------------------------
    usState,       \* run_state.json: the leaf paths of the JSON object
    usPrev,        \* run_state.json before the last update_state
    usPatch,       \* patch of the last update_state
    usReadable,    \* the last update_state could read and parse the file
    usWrites       \* update_state calls made

usVars == <<usState, usPrev, usPatch, usReadable, usWrites>>

VARIABLES
    \* ---- STOP escalation of the UI against the worker thread ------------------
    skWorker,      \* "running", "read" (inside update_state), "post", "ended", "killed"
    skUi,          \* "idle", "timer", "wait1", "wait2", "read", "done"
    skStop,        \* worker._stop
    skTermReq,     \* worker.terminate() was called
    skFile,        \* run_state.json: [status, marks]
    skWorkerCopy,  \* `state` of the worker's update_state, with its patch
    skUiCopy,      \* `state` of the UI's update_state
    skWrote,       \* the terminal status the worker wrote, "none" before
    skPatches      \* the marks of the patches written so far

skVars == <<skWorker, skUi, skStop, skTermReq, skFile, skWorkerCopy, skUiCopy, skWrote, skPatches>>

VARIABLES
    \* ---- response file names and the label the auditor infers -----------------
    lbProject,     \* project_name of the logger
    lbRnd,         \* the random part of the run id
    lbStage,       \* the stage that saves the response
    lbRespId,      \* the id embedded in the name (response id or batch id)
    lbName,        \* the file name save_json made, <<>> before
    lbLabel,       \* _infer_label of the name, "none" before the audit
    lbBatch        \* is_batch of compute_cost in _build_receipt

lbVars == <<lbProject, lbRnd, lbStage, lbRespId, lbName, lbLabel, lbBatch>>

VARIABLES
    \* ---- long prompt ingest (A0) and the first plan request -------------------
    igPc,          \* "start", "ingest", "wait", "plan", "other", "failed", "stopped"
    igCfg,         \* cfg: mode, send_as_c, len(prompt), response_id
    igStop,        \* self._stop
    igChunks,      \* chunks of the prompt
    igI,           \* i of the ingest loop
    igLast,        \* last_id
    igReqs         \* the create_response requests sent, in order

igVars == <<igPc, igCfg, igStop, igChunks, igI, igLast, igReqs>>

VARIABLES
    \* ---- ModelProbeWorker._probe_one and ModelCapabilitiesCache ---------------
    pbPc,          \* "basic", "prev", "temp", "tools", "probed", "saved", "loaded"
    pbVs,          \* vs_id is given
    pbRespId,      \* the basic response has an id
    pbErrs,        \* errs: error key -> message (NoErr for an absent key)
    pbFlags,       \* supports_prev, supports_temp, supports_tools, supports_file_search
    pbData,        \* cache._data for the model: <<>> or <<ModelCapabilities>>
    pbFile         \* the model's object in the cache file: <<>> or <<dict>>

pbVars == <<pbPc, pbVs, pbRespId, pbErrs, pbFlags, pbData, pbFile>>

VARIABLES
    \* ---- request payloads of RunWorker -------------------------------------
    plPc,          \* "start", "vector", "send", "done", "failed"
    plCfg,         \* cfg and the capability snapshot cfg.model_caps
    plFsTools,     \* self._fs_tools is set
    plLocal,       \* supports_fs, tools and vs_ids of _run_b_modify
    plStages,      \* the stages still to send
    plReqs         \* the payloads built, in order

plVars == <<plPc, plCfg, plFsTools, plLocal, plStages, plReqs>>

VARIABLES
    \* ---- the IN directory of a MODIFY run: archive, scan, mirror upload ------
    upPc,          \* "start", "scan", "mirror", "done", "failed"
    upTree,        \* the files of the IN tree (outside venv, .venv, LOG)
    upItems,       \* items of scan_tree, by file
    upNext,        \* next file of the mirror upload loop
    upSent         \* what was uploaded: [file, via]

upVars == <<upPc, upTree, upItems, upNext, upSent>>

vars == <<outVars, rcVars, wkVars, rwVars, ckVars, rnVars, lgVars, rtVars, cdVars, ptVars, stVars, vpVars, gnVars, usVars, skVars, lbVars, igVars, pbVars, plVars, upVars>>

\* what each subsystem leaves alone
notOut == <<rcVars, wkVars, rwVars, ckVars, rnVars, lgVars, rtVars, cdVars, ptVars, stVars, vpVars, gnVars, usVars, skVars, lbVars, igVars, pbVars, plVars, upVars>>
notRc == <<outVars, wkVars, rwVars, ckVars, rnVars, lgVars, rtVars, cdVars, ptVars, stVars, vpVars, gnVars, usVars, skVars, lbVars, igVars, pbVars, plVars, upVars>>
notWk == <<outVars, rcVars, rnVars, lgVars, rtVars, cdVars, ptVars, stVars, vpVars, gnVars, usVars, skVars, lbVars, igVars, pbVars, plVars, upVars>>
notRw == <<outVars, rcVars, ckVars, rnVars, lgVars, rtVars, cdVars, ptVars, stVars, vpVars, gnVars, usVars, skVars, lbVars, igVars, pbVars, plVars, upVars>>
notRn == <<outVars, rcVars, rwVars, ckVars, lgVars, rtVars, cdVars, ptVars, stVars, vpVars, gnVars, usVars, skVars, lbVars, igVars, pbVars, plVars, upVars>>
notLg == <<outVars, rcVars, wkVars, rwVars, ckVars, rnVars, rtVars, cdVars, ptVars, stVars, vpVars, gnVars, usVars, skVars, lbVars, igVars, pbVars, plVars, upVars>>
notRt == <<outVars, rcVars, wkVars, rwVars, ckVars, rnVars, lgVars, cdVars, ptVars, stVars, vpVars, gnVars, usVars, skVars, lbVars, igVars, pbVars, plVars, upVars>>
notCd == <<outVars, rcVars, wkVars, rwVars, ckVars, rnVars, lgVars, rtVars, ptVars, stVars, vpVars, gnVars, usVars, skVars, lbVars, igVars, pbVars, plVars, upVars>>
notPt == <<outVars, rcVars, wkVars, rwVars, ckVars, rnVars, lgVars, rtVars, cdVars, stVars, vpVars, gnVars, usVars, skVars, lbVars, igVars, pbVars, plVars, upVars>>
notSt == <<outVars, rcVars, wkVars, rwVars, ckVars, rnVars, lgVars, rtVars, cdVars, ptVars, vpVars, gnVars, usVars, skVars, lbVars, igVars, pbVars, plVars, upVars>>
notVp == <<outVars, rcVars, wkVars, rwVars, ckVars, rnVars, lgVars, rtVars, cdVars, ptVars, stVars, gnVars, usVars, skVars, lbVars, igVars, pbVars, plVars, upVars>>
notGn == <<outVars, rcVars, wkVars, rwVars, ckVars, rnVars, lgVars, rtVars, cdVars, ptVars, stVars, vpVars, usVars, skVars, lbVars, igVars, pbVars, plVars, upVars>>
notUs == <<outVars, rcVars, wkVars, rwVars, ckVars, rnVars, lgVars, rtVars, cdVars, ptVars, stVars, vpVars, gnVars, skVars, lbVars, igVars, pbVars, plVars, upVars>>
notSk == <<outVars, rcVars, wkVars, rwVars, ckVars, rnVars, lgVars, rtVars, cdVars, ptVars, stVars, vpVars, gnVars, usVars, lbVars, igVars, pbVars, plVars, upVars>>
notLb == <<outVars, rcVars, wkVars, rwVars, ckVars, rnVars, lgVars, rtVars, cdVars, ptVars, stVars, vpVars, gnVars, usVars, skVars, igVars, pbVars, plVars, upVars>>
notIg == <<outVars, rcVars, wkVars, rwVars, ckVars, rnVars, lgVars, rtVars, cdVars, ptVars, stVars, vpVars, gnVars, usVars, skVars, lbVars, pbVars, plVars, upVars>>
notPb == <<outVars, rcVars, wkVars, rwVars, ckVars, rnVars, lgVars, rtVars, cdVars, ptVars, stVars, vpVars, gnVars, usVars, skVars, lbVars, igVars, plVars, upVars>>
notPl == <<outVars, rcVars, wkVars, rwVars, ckVars, rnVars, lgVars, rtVars, cdVars, ptVars, stVars, vpVars, gnVars, usVars, skVars, lbVars, igVars, pbVars, upVars>>
notUp == <<outVars, rcVars, wkVars, rwVars, ckVars, rnVars, lgVars, rtVars, cdVars, ptVars, stVars, vpVars, gnVars, usVars, skVars, lbVars, igVars, pbVars, plVars>>

-----------------------------------------------------------------------------
(* Bounds *)

MaxPathLen == 4
MaxOutFiles == 2
MaxRuns == 2
MaxRespPerRun == 1
MaxAudits == 2
MaxFiles == 2        \* files in a structure response
MaxChunks == 2       \* chunk requests per file
MaxTokens == 2       \* input tokens the service bills to one run
MaxSteps == 2        \* steps of a cascade
MaxExpected == 1     \* expected_out_files entries of a step
MaxManifest == 1     \* files[] rows of a manifest
MaxDepth == 2        \* nesting depth of logged data
MaxLogWrites == 2    \* writes to one run directory
PolicyMaxAttempts == 2   \* settings.retry.max_attempts
BreakerFailures == 2     \* settings.retry.circuit_breaker_failures
MaxCalls == 2        \* with_retry calls sharing one breaker
MaxDefSteps == 1     \* steps of a definition that is written and read back
MaxVersion == 2      \* CascadeDefinition.version
MaxRows == 1         \* rows handed to one update_from_rows
MaxStamp == 2        \* changes of the price table
MaxTextLen == 4      \* characters of a text that is split
MaxK == 3            \* max_chars
MaxRelLen == 4       \* characters of a path in files[]
MaxEntries == 2      \* entries of files[]
MaxGenFiles == 2     \* files of a structure response
ChunkGuard == 2      \* the chunk index the loop guard allows (5000 in the source)
MaxPasses == ChunkGuard + 2   \* chunk requests followed per file
MaxInFiles == 2      \* files of the IN tree
IngestThreshold == 3 \* prompt length above which the prompt is ingested (150000 in the source)
IngestChunk == 2     \* max_chars of an ingest part (20000 in the source)
MaxPromptLen == 5    \* characters of cfg.prompt
MaxStateDepth == 2   \* nesting depth of run_state.json and of a patch
MaxStateWrites == 2  \* update_state calls on one run_state.json

-----------------------------------------------------------------------------
(* String helpers (Python str methods on sequences of characters) *)

RECURSIVE SplitFrom(_, _, _, _)
SplitFrom(s, sep, i, cur) ==
    IF i > Len(s) THEN <<cur>>
    ELSE IF s[i] = sep THEN <<cur>> \o SplitFrom(s, sep, i + 1, <<>>)
    ELSE SplitFrom(s, sep, i + 1, Append(cur, s[i]))

\* str.split(sep): "" -> [""], "a/" -> ["a", ""]
Split(s, sep) == SplitFrom(s, sep, 1, <<>>)

RECURSIVE JoinSegs(_, _)
JoinSegs(segs, sep) ==
    IF segs = <<>> THEN <<>>
    ELSE IF Len(segs) = 1 THEN segs[1]
    ELSE segs[1] \o <<sep>> \o JoinSegs(Tail(segs), sep)

\* str.replace(a, b) for single characters
ReplaceChar(s, a, b) == [i \in 1..Len(s) |-> IF s[i] = a THEN b ELSE s[i]]

RECURSIVE LStripChar(_, _)
LStripChar(s, c) ==
    IF s # <<>> /\ Head(s) = c THEN LStripChar(Tail(s), c) ELSE s

RECURSIVE RStripChar(_, _)
RStripChar(s, c) ==
    IF s # <<>> /\ s[Len(s)] = c THEN RStripChar(SubSeq(s, 1, Len(s) - 1), c) ELSE s

\* str.strip() with " " as the only whitespace of the alphabet
Strip(s) == RStripChar(LStripChar(s, " "), " ")

StartsWith(s, c) == s # <<>> /\ Head(s) = c

\* All strings over alphabet A of length lo..hi
StringsOver(A, lo, hi) == UNION {[1..n -> A] : n \in lo..hi}

DotDot == <<".", ".">>
Dot == <<".">>

-----------------------------------------------------------------------------
(* Path resolution by the operating system *)

\* Walking the components of an absolute path from "/": "" and "." stay,
\* ".." goes to the parent ("/" is its own parent), a name descends.
RECURSIVE WalkSegs(_, _, _)
WalkSegs(segs, i, at) ==
    IF i > Len(segs) THEN at
    ELSE IF segs[i] = <<>> \/ segs[i] = Dot THEN WalkSegs(segs, i + 1, at)
    ELSE IF segs[i] = DotDot
         THEN WalkSegs(segs, i + 1, IF at = <<>> THEN <<>> ELSE SubSeq(at, 1, Len(at) - 1))
    ELSE WalkSegs(segs, i + 1, Append(at, segs[i]))

\* The location an absolute path string names (no symlinks on the disk).
Resolve(p) == WalkSegs(Split(p, "/"), 1, <<>>)

IsPrefix(a, b) == Len(a) <= Len(b) /\ SubSeq(b, 1, Len(a)) = a
StrictlyInside(loc, root) == IsPrefix(root, loc) /\ Len(loc) > Len(root)

\* os.path.dirname on a POSIX path string: everything before the last "/"
DirName(p) ==
    LET segs == Split(p, "/")
        head == JoinSegs(SubSeq(segs, 1, Len(segs) - 1), "/")
    IN  IF RStripChar(head, "/") = <<>> /\ Len(segs) > 1 THEN <<"/">> ELSE RStripChar(head, "/")

\* Locations os.makedirs(p, exist_ok=True) visits: every textual prefix of p
MakedirsVisits(p) ==
    LET segs == Split(p, "/")
    IN  {WalkSegs(SubSeq(segs, 1, n), 1, <<>>) : n \in 1..Len(segs)}

-----------------------------------------------------------------------------
(* Output stage: RunWorker._save_out_files *)

OutDir == <<"/", "o">>             \* cfg.out_dir, an absolute directory
OutDirLoc == Resolve(OutDir)

PathChars == {"/", ".", "a"}
\* relative paths as the model returns them; callers drop empty paths
ModelPaths == StringsOver(PathChars, 1, MaxPathLen)
FileLists == UNION {[1..n -> ModelPaths] : n \in 0..MaxOutFiles}

\* os.path.join(out_dir, rel.replace("/", os.sep))
OsPathJoin(root, rel) ==
    IF StartsWith(rel, "/") THEN rel
    ELSE IF root # <<>> /\ root[Len(root)] = "/" THEN root \o rel
    ELSE root \o <<"/">> \o rel

\* ensure_dir(path) succeeds unless a visited location is a regular file
EnsureDirOk(p, files) == MakedirsVisits(p) \cap files = {}

\* open(dst, "w") succeeds unless dst names a directory
OpenForWriteOk(dst, dirs) ==
    /\ Resolve(dst) \notin dirs
    /\ Resolve(dst) # <<>>
    /\ dst[Len(dst)] # "/"

OutInit ==
    /\ outFiles = <<>>
    /\ outIdx = 0
    /\ outSaved = <<>>
    /\ outDiskFiles = {}
    /\ outDiskDirs = {<<>>}
    /\ outStatus = "idle"
    /\ outStop = FALSE

\* entry: out_dir = cfg.out_dir; ensure_dir(out_dir); saved = []
OutBegin ==
    /\ outStatus = "idle"
    /\ \E fl \in FileLists : outFiles' = fl
    /\ outDiskDirs' = outDiskDirs \cup MakedirsVisits(OutDir)
    /\ outStatus' = "saving"
    /\ UNCHANGED <<outIdx, outSaved, outDiskFiles, outStop>>
    /\ UNCHANGED notOut

\* one iteration of `for i, f in enumerate(files)`
OutSaveFile ==
    /\ outStatus = "saving"
    /\ outIdx < Len(outFiles)
    /\ UNCHANGED notOut
    /\ IF outStop
       THEN /\ outStatus' = "stopped"            \* _check_stop raises
            /\ UNCHANGED <<outFiles, outIdx, outSaved, outDiskFiles, outDiskDirs, outStop>>
       ELSE LET rel == outFiles[outIdx + 1]
                dst == OsPathJoin(OutDir, rel)
            IN  IF ~EnsureDirOk(DirName(dst), outDiskFiles)
                THEN /\ outStatus' = "failed"
                     /\ UNCHANGED <<outFiles, outIdx, outSaved, outDiskFiles, outDiskDirs, outStop>>
                ELSE IF ~OpenForWriteOk(dst, outDiskDirs \cup MakedirsVisits(DirName(dst)))
                THEN /\ outStatus' = "failed"
                     /\ outDiskDirs' = outDiskDirs \cup MakedirsVisits(DirName(dst))
                     /\ UNCHANGED <<outFiles, outIdx, outSaved, outDiskFiles, outStop>>
                ELSE /\ outDiskDirs' = outDiskDirs \cup MakedirsVisits(DirName(dst))
                     /\ outDiskFiles' = outDiskFiles \cup {Resolve(dst)}
                     /\ outSaved' = Append(outSaved, [rel |-> rel, dst |-> dst])
                     /\ outIdx' = outIdx + 1
                     /\ UNCHANGED <<outFiles, outStatus, outStop>>

\* after the loop: save_json("manifests", "out_saved_map", ...); return
OutFinish ==
    /\ outStatus = "saving"
    /\ outIdx = Len(outFiles)
    /\ outStatus' = "saved"
    /\ UNCHANGED <<outFiles, outIdx, outSaved, outDiskFiles, outDiskDirs, outStop>>
    /\ UNCHANGED notOut

\* RunWorker.request_stop, called from the UI thread
OutRequestStop ==
    /\ outStatus \in {"idle", "saving"}
    /\ ~outStop
    /\ outStop' = TRUE
    /\ UNCHANGED <<outFiles, outIdx, outSaved, outDiskFiles, outDiskDirs, outStatus>>
    /\ UNCHANGED notOut

OutNext == OutBegin \/ OutSaveFile \/ OutFinish \/ OutRequestStop

-----------------------------------------------------------------------------
(* Receipt store: ReceiptDB (sqlite table `receipts`, no UNIQUE constraint) *)

NoId == 0                       \* NULL, "" or a missing id
Runs == 1..MaxRuns              \* run directories, in sorted-name order
Tokens == {0, 1}                \* usage tokens of one response
Prices == {1, 2}                \* price of one token in the price table

Abs(x) == IF x < 0 THEN -x ELSE x

RECURSIVE SortedSeq(_)
SortedSeq(S) ==
    IF S = {} THEN <<>>
    ELSE LET m == CHOOSE x \in S : \A y \in S : x <= y
         IN  <<m>> \o SortedSeq(S \ {m})

MaxOf(S) == CHOOSE x \in S : \A y \in S : y <= x

MapPut(f, k, v) == [x \in DOMAIN f \cup {k} |-> IF x = k THEN v ELSE f[x]]

\* ReceiptDB.insert: appends the row; lastrowid is its position
DbInsert(rows, r) == Append(rows, r)

\* ReceiptDB.update_row: overwrites every column of row `id`
DbUpdateRow(rows, id, r) == [rows EXCEPT ![id] = r]

\* ReceiptDB.existing_index: later rows overwrite earlier map entries
ExistingIndex(rows) ==
    LET rids == {rows[i].rid : i \in 1..Len(rows)} \ {NoId}
        bids == {rows[i].bid : i \in 1..Len(rows)} \ {NoId}
        lastR(r) == MaxOf({i \in 1..Len(rows) : rows[i].rid = r})
        lastB(b) == MaxOf({i \in 1..Len(rows) : rows[i].bid = b})
    IN  [resp  |-> [r \in rids |-> [id |-> lastR(r), cost |-> rows[lastR(r)].cost]],
         batch |-> [b \in bids |-> [id |-> lastB(b), cost |-> rows[lastB(b)].cost]],
         runs  |-> {rows[i].run : i \in 1..Len(rows)}]

-----------------------------------------------------------------------------
(* Pricing auditor: PricingAuditor *)

\* _needs_update (costs are whole numbers here, so |d| > 1e-6 is |d| > 0)
NeedsUpdate(existing, new) ==
    \/ existing = 0 /\ new # 0
    \/ Abs(existing - new) > 0

\* _build_receipt: the receipt of one response file at the current price
BuildReceipt(run, file, price) ==
    [run |-> run, rid |-> file.rid, bid |-> file.bid, cost |-> file.tok * price]

\* _insert_or_update: new table, new index and the operation performed
InsertOrUpdate(rows, idx, rec) ==
    IF rec.rid # NoId /\ rec.rid \in DOMAIN idx.resp
    THEN LET ex == idx.resp[rec.rid]
         IN  IF NeedsUpdate(ex.cost, rec.cost)
             THEN [rows |-> DbUpdateRow(rows, ex.id, rec),
                   idx  |-> [idx EXCEPT !.resp[rec.rid].cost = rec.cost],
                   op   |-> "updated"]
             ELSE [rows |-> rows, idx |-> idx, op |-> "skipped"]
    ELSE IF rec.bid # NoId /\ rec.bid \in DOMAIN idx.batch
    THEN LET ex == idx.batch[rec.bid]
         IN  IF NeedsUpdate(ex.cost, rec.cost)
             THEN [rows |-> DbUpdateRow(rows, ex.id, rec),
                   idx  |-> [idx EXCEPT !.batch[rec.bid].cost = rec.cost],
                   op   |-> "updated"]
             ELSE [rows |-> rows, idx |-> idx, op |-> "skipped"]
    ELSE LET id == Len(rows) + 1
             e  == [id |-> id, cost |-> rec.cost]
         IN  [rows |-> DbInsert(rows, rec),
              idx  |-> [resp  |-> IF rec.rid # NoId THEN MapPut(idx.resp, rec.rid, e) ELSE idx.resp,
                        batch |-> IF rec.bid # NoId THEN MapPut(idx.batch, rec.bid, e) ELSE idx.batch,
                        runs  |-> idx.runs \cup {rec.run}],
              op   |-> "inserted"]

\* _maybe_insert_fallback: a zero receipt for a run without responses; the
\* index key "fallback-<row id>" is the negated row id here
MaybeInsertFallback(rows, idx, run) ==
    IF run \in idx.runs
    THEN [rows |-> rows, idx |-> idx, n |-> 0]
    ELSE LET id == Len(rows) + 1
         IN  [rows |-> DbInsert(rows, [run |-> run, rid |-> NoId, bid |-> NoId, cost |-> 0]),
              idx  |-> [resp  |-> MapPut(idx.resp, -id, [id |-> id, cost |-> 0]),
                        batch |-> idx.batch,
                        runs  |-> idx.runs \cup {run}],
              n    |-> 1]

EmptyIndex == [resp |-> <<>>, batch |-> <<>>, runs |-> {}]

RcInit ==
    /\ rcRows = <<>>
    /\ rcPrice = 1
    /\ rcDir = [k \in Runs |-> FALSE]
    /\ rcFiles = [k \in Runs |-> <<>>]
    /\ rcNextResp = 1
    /\ orchPc = [k \in Runs |-> "absent"]
    /\ auPc = "idle"
    /\ auIdx = EmptyIndex
    /\ auRunList = <<>>
    /\ auRun = 0
    /\ auFileN = 0
    /\ auFile = 0
    /\ auInserted = 0
    /\ auSeen = {}
    /\ auCount = 0
    /\ auClean = FALSE
    /\ auQuiet = FALSE

\* audit(): _refresh_pricing_if_needed, existing_index, _iter_run_dirs
AuditStart ==
    /\ auPc \in {"idle", "done"}
    /\ auCount < MaxAudits
    /\ \E p \in Prices : rcPrice' = p
    /\ auIdx' = ExistingIndex(rcRows)
    /\ auRunList' = SortedSeq({k \in Runs : rcDir[k]})
    /\ auRun' = 0
    /\ auFileN' = 0
    /\ auFile' = 0
    /\ auInserted' = 0
    /\ auSeen' = {}
    /\ auCount' = auCount + 1
    /\ auQuiet' = (auPc = "done" /\ auClean)
    /\ auClean' = TRUE
    /\ auPc' = "scan"
    /\ UNCHANGED <<rcRows, rcDir, rcFiles, rcNextResp, orchPc>>
    /\ UNCHANGED notRc

\* _audit_run up to the listing of responses/*.json; a run without response
\* files gets the fallback receipt
AuditEnterRun ==
    /\ auPc = "scan"
    /\ auRun < Len(auRunList)
    /\ LET k == auRunList[auRun + 1]
           n == Len(rcFiles[k])
           fb == MaybeInsertFallback(rcRows, auIdx, k)
       IN  IF n = 0
           THEN /\ rcRows' = fb.rows
                /\ auIdx' = fb.idx
                /\ auInserted' = auInserted + fb.n
                /\ auRun' = auRun + 1
                /\ UNCHANGED <<auPc, auFileN, auFile>>
           ELSE /\ auPc' = "files"
                /\ auFileN' = n
                /\ auFile' = 0
                /\ UNCHANGED <<rcRows, auIdx, auInserted, auRun>>
    /\ UNCHANGED <<rcPrice, rcDir, rcFiles, rcNextResp, orchPc, auRunList, auSeen,
                   auCount, auClean, auQuiet>>
    /\ UNCHANGED notRc

\* one iteration of `for resp_path in resp_files`
AuditFile ==
    /\ auPc = "files"
    /\ LET k == auRunList[auRun + 1]
           f == rcFiles[k][auFile + 1]
           res == InsertOrUpdate(rcRows, auIdx, BuildReceipt(k, f, rcPrice))
       IN  /\ rcRows' = res.rows
           /\ auIdx' = res.idx
           /\ auInserted' = auInserted + (IF res.op = "inserted" THEN 1 ELSE 0)
           /\ auSeen' = auSeen \cup ({f.rid} \ {NoId})
    /\ IF auFile + 1 = auFileN
       THEN auPc' = "scan" /\ auRun' = auRun + 1 /\ auFile' = 0
       ELSE auFile' = auFile + 1 /\ UNCHANGED <<auPc, auRun>>
    /\ UNCHANGED <<rcPrice, rcDir, rcFiles, rcNextResp, orchPc, auRunList, auFileN,
                   auCount, auClean, auQuiet>>
    /\ UNCHANGED notRc

\* audit() returns its summary
AuditFinish ==
    /\ auPc = "scan"
    /\ auRun = Len(auRunList)
    /\ auPc' = "done"
    /\ UNCHANGED <<rcRows, rcPrice, rcDir, rcFiles, rcNextResp, orchPc, auIdx, auRunList,
                   auRun, auFileN, auFile, auInserted, auSeen, auCount, auClean, auQuiet>>
    /\ UNCHANGED notRc

-----------------------------------------------------------------------------
(* Orchestrators as writers of the LOG tree and of the receipt store *)

auUnchanged == <<auPc, auIdx, auRunList, auRun, auFileN, auFile, auInserted, auSeen, auCount>>

\* RunLogger.__init__ / CascadeLogger.__init__: the run directory appears
OrchStart(k) ==
    /\ orchPc[k] = "absent"
    /\ orchPc' = [orchPc EXCEPT ![k] = "running"]
    /\ rcDir' = [rcDir EXCEPT ![k] = TRUE]
    /\ auClean' = FALSE /\ auQuiet' = FALSE
    /\ UNCHANGED <<rcRows, rcPrice, rcFiles, rcNextResp>>
    /\ UNCHANGED auUnchanged
    /\ UNCHANGED notRc

\* save_json("responses", "<stage>_response_<id or NOID>_...", resp)
OrchSaveResponse(k) ==
    /\ orchPc[k] = "running"
    /\ Len(rcFiles[k]) < MaxRespPerRun
    /\ \E hasId \in BOOLEAN, tok \in Tokens :
         /\ rcFiles' = [rcFiles EXCEPT ![k] =
                Append(@, [rid |-> IF hasId THEN rcNextResp ELSE NoId, bid |-> NoId, tok |-> tok])]
         /\ rcNextResp' = IF hasId THEN rcNextResp + 1 ELSE rcNextResp
    /\ auClean' = FALSE /\ auQuiet' = FALSE
    /\ UNCHANGED <<rcRows, rcPrice, rcDir, orchPc>>
    /\ UNCHANGED auUnchanged
    /\ UNCHANGED notRc

\* RunWorker._record_receipt(resp, response_id=str(resp.get("id") or "")):
\* the receipt of one saved response of the run (A2, B2, QA or QFILE)
OrchRecordReceipt(k) ==
    /\ orchPc[k] = "running"
    /\ \E i \in 1..Len(rcFiles[k]) :
         rcRows' = DbInsert(rcRows, [run |-> k, rid |-> rcFiles[k][i].rid, bid |-> NoId,
                                     cost |-> rcFiles[k][i].tok * rcPrice])
    /\ orchPc' = [orchPc EXCEPT ![k] = "done"]
    /\ auClean' = FALSE /\ auQuiet' = FALSE
    /\ UNCHANGED <<rcPrice, rcDir, rcFiles, rcNextResp>>
    /\ UNCHANGED auUnchanged
    /\ UNCHANGED notRc

\* RunWorker._ensure_receipt_on_failure: response_id=None, accumulated tokens
\* (none accumulated before a _record_receipt)
OrchFallbackReceipt(k) ==
    /\ orchPc[k] = "running"
    /\ rcRows' = DbInsert(rcRows, [run |-> k, rid |-> NoId, bid |-> NoId, cost |-> 0])
    /\ orchPc' = [orchPc EXCEPT ![k] = "done"]
    /\ auClean' = FALSE /\ auQuiet' = FALSE
    /\ UNCHANGED <<rcPrice, rcDir, rcFiles, rcNextResp>>
    /\ UNCHANGED auUnchanged
    /\ UNCHANGED notRc

\* CascadeRunWorker.run and RunWorker._run_c_batch end without a receipt
OrchEndNoReceipt(k) ==
    /\ orchPc[k] = "running"
    /\ orchPc' = [orchPc EXCEPT ![k] = "done"]
    /\ auClean' = FALSE /\ auQuiet' = FALSE
    /\ UNCHANGED <<rcRows, rcPrice, rcDir, rcFiles, rcNextResp>>
    /\ UNCHANGED auUnchanged
    /\ UNCHANGED notRc

RcNext ==
    \/ AuditStart \/ AuditEnterRun \/ AuditFile \/ AuditFinish
    \/ \E k \in Runs : OrchStart(k)
    \/ \E k \in Runs : OrchSaveResponse(k)
    \/ \E k \in Runs : OrchRecordReceipt(k)
    \/ \E k \in Runs : OrchFallbackReceipt(k)
    \/ \E k \in Runs : OrchEndNoReceipt(k)

-----------------------------------------------------------------------------
(* Responses of the remote service and the JSON contract layer *)

ContractValues ==
    {"A1_PLAN", "A2_STRUCTURE", "A3_FILE", "B1_PLAN", "B2_STRUCTURE", "B3_FILE",
     "previous_response_id"}

Usages == {<<0, 0>>, <<1, 2>>}     \* <<input_tokens, output_tokens>> of one response

\* The text of a response is a JSON object, prose around a JSON object, valid
\* JSON that is not an object, or no JSON at all.
Responses ==
    [shape : {"object", "embedded"}, contract : ContractValues, more : BOOLEAN, usage : Usages]
        \cup [shape : {"array", "text"}, contract : {"none"}, more : {FALSE}, usage : Usages]

\* parse_json_strict: the parsed object, or the ContractError
ParseJsonStrict(resp) ==
    IF resp.shape \in {"object", "embedded"} THEN [ok |-> TRUE, obj |-> resp, err |-> "none"]
    ELSE IF resp.shape = "array"
    THEN [ok |-> FALSE, obj |-> resp, err |-> "Response JSON must be an object."]
    ELSE [ok |-> FALSE, obj |-> resp, err |-> "Response is not valid JSON"]

\* _usage_from_resp
UsageFromResp(resp) == resp.usage

AddUsage(a, b) == <<a[1] + b[1], a[2] + b[2]>>

-----------------------------------------------------------------------------
(* RunWorker.run *)

MaxAttempts == 3                   \* max_attempts in _gen_file_chunks

PlanContract(mode) == IF mode = "GENERATE" THEN "A1_PLAN" ELSE "B1_PLAN"
StructureContract(mode) == IF mode = "GENERATE" THEN "A2_STRUCTURE" ELSE "B2_STRUCTURE"
FileContract(mode) == IF mode = "GENERATE" THEN "A3_FILE" ELSE "B3_FILE"

\* a response that accepts any contract literal
AnyContractOk(parsed, contract) == TRUE

\* `if parsed.get("contract") != contract: raise ContractError(...)`
ChunkContractOk(parsed, contract) == parsed.obj.contract = contract

\* the try-block of one attempt: parse, then the contract check; the error
\* text of a mismatch quotes the contract that was received
ChunkParse(resp, contract) ==
    LET parsed == ParseJsonStrict(resp)
    IN  IF ~parsed.ok
        THEN [ok |-> FALSE, contract |-> "none", more |-> FALSE, err |-> parsed.err]
        ELSE IF ~ChunkContractOk(parsed, contract)
        THEN [ok |-> FALSE, contract |-> parsed.obj.contract, more |-> FALSE,
              err |-> parsed.obj.contract]
        ELSE [ok |-> TRUE, contract |-> parsed.obj.contract, more |-> parsed.obj.more,
              err |-> "none"]

\* "previous_response_id" in str(e).lower()
MentionsPrevId(err) == err = "previous_response_id"

\* parts.append(""), parts.append(parsed.get("content", "")): a part with the
\* parse result it was taken from
NoPart == [src |-> "gave_up", obj |-> FALSE, contract |-> "none"]
ResponsePart(parsed) == [src |-> "response", obj |-> parsed.ok, contract |-> parsed.contract]

\* _ensure_receipt_on_failure
EnsureReceiptOnFailure(receipts, has, total, flow) ==
    IF has THEN receipts
    ELSE Append(receipts, [flow |-> flow, inp |-> total[1], out |-> total[2]])

WkInit(workers) ==
    /\ wkWorker \in workers
    /\ wkPc = "start"
    /\ wkStop = FALSE
    /\ wkStatus = (IF wkWorker = "run" THEN "created" ELSE "absent")
    /\ wkSignal = "none"
    /\ wkExc = "none"

RwInit ==
    /\ rwMode \in (IF wkWorker = "run" THEN {"GENERATE", "MODIFY"} ELSE {"GENERATE"})
    /\ rwFilesN = 0
    /\ rwOutFiles = <<>>
    /\ rwChunk = 0
    /\ rwAttempt = 0
    /\ rwParts = <<>>
    /\ rwTotal = <<0, 0>>
    /\ rwHasReceipt = FALSE
    /\ rwReceipts = <<>>
    /\ rwPrevIdErr = FALSE
    /\ rwRecv = <<0, 0>>
    /\ rwResp2 = <<0, 0>>
    /\ rwStopAt = "none"

\* an exception leaves the try-block of run()
Raise(e) == wkExc' = e /\ wkPc' = "except"

\* the service bills at most MaxTokens input tokens to the run
Billable(resp) == rwRecv[1] + UsageFromResp(resp)[1] <= MaxTokens

rwGen == <<rwFilesN, rwOutFiles, rwChunk, rwAttempt, rwParts>>
rwBilling == <<rwTotal, rwHasReceipt, rwReceipts>>

\* run() up to the first request: update_state(running), the mode and
\* capability checks, diagnostics, IN mirror, long-prompt ingest
RwBegin ==
    /\ wkWorker = "run" /\ wkPc = "start"
    /\ \/ /\ wkStatus' = "running" /\ wkPc' = "plan"
          /\ UNCHANGED <<wkExc, rwStopAt>>
       \/ /\ wkStatus' \in {wkStatus, "running"} /\ Raise("error")
          /\ UNCHANGED rwStopAt
       \/ /\ wkStop /\ wkStatus' = "running" /\ Raise("STOP_REQUESTED")
          /\ rwStopAt' = "prepare"
    /\ UNCHANGED <<wkWorker, wkStop, wkSignal, rwMode, rwGen, rwBilling, rwPrevIdErr,
                   rwRecv, rwResp2>>
    /\ UNCHANGED notRw

\* A1 / B1: the plan request and its contract check
RwPlan ==
    /\ wkWorker = "run" /\ wkPc = "plan"
    /\ \/ Raise("error") /\ UNCHANGED rwRecv          \* with_retry gives up
       \/ \E resp \in Responses :
            /\ Billable(resp)
            /\ rwRecv' = AddUsage(rwRecv, UsageFromResp(resp))
            /\ LET plan == ParseJsonStrict(resp)
               IN  IF plan.ok /\ plan.obj.contract = PlanContract(rwMode)
                   THEN wkPc' = "structure" /\ UNCHANGED wkExc
                   ELSE Raise("error")
    /\ UNCHANGED <<wkWorker, wkStop, wkStatus, wkSignal, rwMode, rwGen, rwBilling,
                   rwPrevIdErr, rwResp2, rwStopAt>>
    /\ UNCHANGED notRw

\* A2 / B2: the structure request, its contract check and the file filter
\* (only the GENERATE filter loop calls _check_stop)
RwStructure ==
    /\ wkWorker = "run" /\ wkPc = "structure"
    /\ \/ Raise("error") /\ UNCHANGED <<rwRecv, rwResp2, rwFilesN, rwStopAt>>
       \/ \E resp \in Responses, n \in 0..MaxFiles :
            /\ Billable(resp)
            /\ rwRecv' = AddUsage(rwRecv, UsageFromResp(resp))
            /\ rwResp2' = UsageFromResp(resp)
            /\ LET struct == ParseJsonStrict(resp)
               IN  IF ~(struct.ok /\ struct.obj.contract = StructureContract(rwMode))
                   THEN Raise("error") /\ UNCHANGED <<rwFilesN, rwStopAt>>
                   ELSE IF rwMode = "GENERATE" /\ n > 0 /\ wkStop
                   THEN Raise("STOP_REQUESTED") /\ rwStopAt' = "structure" /\ UNCHANGED rwFilesN
                   ELSE wkPc' = "file" /\ rwFilesN' = n /\ UNCHANGED <<wkExc, rwStopAt>>
    /\ UNCHANGED <<wkWorker, wkStop, wkStatus, wkSignal, rwMode, rwOutFiles, rwChunk,
                   rwAttempt, rwParts, rwBilling, rwPrevIdErr>>
    /\ UNCHANGED notRw

\* top of `for idx, f in enumerate(files)`: _check_stop, then _gen_file_chunks
RwNextFile ==
    /\ wkWorker = "run" /\ wkPc = "file"
    /\ Len(rwOutFiles) < rwFilesN
    /\ IF wkStop
       THEN Raise("STOP_REQUESTED") /\ rwStopAt' = "file" /\ UNCHANGED <<rwChunk, rwParts>>
       ELSE wkPc' = "chunk" /\ rwChunk' = 0 /\ rwParts' = <<>> /\ UNCHANGED <<wkExc, rwStopAt>>
    /\ UNCHANGED <<wkWorker, wkStop, wkStatus, wkSignal, rwMode, rwFilesN, rwOutFiles,
                   rwAttempt, rwBilling, rwPrevIdErr, rwRecv, rwResp2>>
    /\ UNCHANGED notRw

\* top of `while True` in _gen_file_chunks: _check_stop, build and save the request
RwChunkRequest ==
    /\ wkWorker = "run" /\ wkPc = "chunk"
    /\ IF wkStop
       THEN Raise("STOP_REQUESTED") /\ rwStopAt' = "chunk" /\ UNCHANGED rwAttempt
       ELSE wkPc' = "attempt" /\ rwAttempt' = 0 /\ UNCHANGED <<wkExc, rwStopAt>>
    /\ UNCHANGED <<wkWorker, wkStop, wkStatus, wkSignal, rwMode, rwFilesN, rwOutFiles,
                   rwChunk, rwParts, rwBilling, rwPrevIdErr, rwRecv, rwResp2>>
    /\ UNCHANGED notRw

\* one pass of `while attempt < max_attempts and parsed is None`, and what
\* follows the loop when it ends: append the part, finish the file or go on
RwChunkAttempt ==
    /\ wkWorker = "run" /\ wkPc = "attempt"
    /\ \/ /\ Raise("error")                           \* with_retry gives up
          /\ UNCHANGED <<rwRecv, rwAttempt, rwParts, rwOutFiles, rwChunk, rwPrevIdErr>>
       \/ \E resp \in Responses :
            /\ resp.more => rwChunk + 1 < MaxChunks
            /\ Billable(resp)
            /\ rwRecv' = AddUsage(rwRecv, UsageFromResp(resp))
            /\ LET parsed == ChunkParse(resp, FileContract(rwMode))
                   done(parts) == /\ rwOutFiles' = Append(rwOutFiles, parts)
                                  /\ rwParts' = <<>>
                                  /\ wkPc' = "file"
               IN  IF parsed.ok
                   THEN /\ IF parsed.more
                           THEN /\ rwParts' = Append(rwParts, ResponsePart(parsed))
                                /\ rwChunk' = rwChunk + 1
                                /\ wkPc' = "chunk"
                                /\ UNCHANGED rwOutFiles
                           ELSE /\ done(Append(rwParts, ResponsePart(parsed)))
                                /\ UNCHANGED rwChunk
                        /\ UNCHANGED <<wkExc, rwAttempt, rwPrevIdErr>>
                   ELSE IF MentionsPrevId(parsed.err)
                   THEN /\ rwPrevIdErr' = TRUE
                        /\ rwAttempt' = rwAttempt + 1
                        /\ Raise("error")
                        /\ UNCHANGED <<rwParts, rwOutFiles, rwChunk>>
                   ELSE IF rwAttempt + 1 >= MaxAttempts
                   THEN /\ done(Append(rwParts, NoPart))
                        /\ rwAttempt' = rwAttempt + 1
                        /\ UNCHANGED <<wkExc, rwChunk, rwPrevIdErr>>
                   ELSE /\ rwAttempt' = rwAttempt + 1
                        /\ UNCHANGED <<wkPc, wkExc, rwParts, rwOutFiles, rwChunk, rwPrevIdErr>>
    /\ UNCHANGED <<wkWorker, wkStop, wkStatus, wkSignal, rwMode, rwFilesN, rwBilling,
                   rwResp2, rwStopAt>>
    /\ UNCHANGED notRw

\* after the file loop: _save_out_files(out_files), which calls _check_stop
\* before each file and may fail on the file system
RwSaveOutFiles ==
    /\ wkWorker = "run" /\ wkPc = "file"
    /\ Len(rwOutFiles) = rwFilesN
    /\ IF wkStop /\ rwFilesN > 0
       THEN Raise("STOP_REQUESTED") /\ rwStopAt' = "save"
       ELSE /\ \/ wkPc' = "receipt" /\ UNCHANGED wkExc
               \/ Raise("error")
            /\ UNCHANGED rwStopAt
    /\ UNCHANGED <<wkWorker, wkStop, wkStatus, wkSignal, rwMode, rwGen, rwBilling,
                   rwPrevIdErr, rwRecv, rwResp2>>
    /\ UNCHANGED notRw

\* _record_receipt(resp2, ...): the receipt of the structure response
RwRecordReceipt ==
    /\ wkWorker = "run" /\ wkPc = "receipt"
    /\ \/ /\ rwReceipts' = Append(rwReceipts,
                [flow |-> rwMode, inp |-> rwResp2[1], out |-> rwResp2[2]])
          /\ rwHasReceipt' = TRUE
          /\ rwTotal' = AddUsage(rwTotal, rwResp2)
          /\ wkPc' = "complete"
          /\ UNCHANGED wkExc
       \/ Raise("error") /\ UNCHANGED rwBilling       \* db.insert fails
    /\ UNCHANGED <<wkWorker, wkStop, wkStatus, wkSignal, rwMode, rwGen, rwPrevIdErr,
                   rwRecv, rwResp2, rwStopAt>>
    /\ UNCHANGED notRw

\* emits finished_ok where run() writes the completed status
RwEmitInsteadOfComplete ==
    /\ wkWorker = "run" /\ wkPc = "complete"
    /\ wkSignal' = "finished_ok"
    /\ wkPc' = "end"
    /\ UNCHANGED <<wkWorker, wkStop, wkStatus, wkExc, rwVars>>
    /\ UNCHANGED notRw

\* update_state({"status": "completed"}); a failed write raises
RwComplete ==
    /\ wkWorker = "run" /\ wkPc = "complete"
    /\ \/ wkStatus' = "completed" /\ wkPc' = "emit_ok" /\ UNCHANGED wkExc
       \/ Raise("error") /\ UNCHANGED wkStatus
    /\ UNCHANGED <<wkWorker, wkStop, wkSignal, rwVars>>
    /\ UNCHANGED notRw

\* finished_ok.emit(result)
RwEmitOk ==
    /\ wkWorker = "run" /\ wkPc = "emit_ok"
    /\ wkSignal' = "finished_ok"
    /\ wkPc' = "end"
    /\ UNCHANGED <<wkWorker, wkStop, wkStatus, wkExc, rwVars>>
    /\ UNCHANGED notRw

\* except-branch for str(e) == "STOP_REQUESTED": update_state(stopped), then
\* the fallback receipt inside try/except; a failed status write leaves run()
RwHandleStop ==
    /\ wkWorker = "run" /\ wkPc = "except" /\ wkExc = "STOP_REQUESTED"
    /\ \/ /\ wkStatus' = "stopped"
          /\ wkPc' = "emit_err"
          /\ \/ /\ rwReceipts' = EnsureReceiptOnFailure(rwReceipts, rwHasReceipt, rwTotal, "RUN_STOPPED")
                /\ rwHasReceipt' = TRUE
             \/ UNCHANGED <<rwReceipts, rwHasReceipt>>     \* db.insert fails, swallowed
       \/ /\ wkPc' = "end"
          /\ UNCHANGED <<wkStatus, rwReceipts, rwHasReceipt>>
    /\ UNCHANGED <<wkWorker, wkStop, wkSignal, wkExc, rwMode, rwGen, rwTotal, rwPrevIdErr,
                   rwRecv, rwResp2, rwStopAt>>
    /\ UNCHANGED notRw

\* except-branch for any other exception: update_state(failed), fallback receipt
RwHandleFailure ==
    /\ wkWorker = "run" /\ wkPc = "except" /\ wkExc # "STOP_REQUESTED"
    /\ \/ /\ wkStatus' = "failed"
          /\ wkPc' = "emit_err"
          /\ \/ /\ rwReceipts' = EnsureReceiptOnFailure(rwReceipts, rwHasReceipt, rwTotal, "RUN_FAILED")
                /\ rwHasReceipt' = TRUE
             \/ UNCHANGED <<rwReceipts, rwHasReceipt>>
       \/ /\ wkPc' = "end"
          /\ UNCHANGED <<wkStatus, rwReceipts, rwHasReceipt>>
    /\ UNCHANGED <<wkWorker, wkStop, wkSignal, wkExc, rwMode, rwGen, rwTotal, rwPrevIdErr,
                   rwRecv, rwResp2, rwStopAt>>
    /\ UNCHANGED notRw

\* finished_err.emit(...)
RwEmitErr ==
    /\ wkWorker = "run" /\ wkPc = "emit_err"
    /\ wkSignal' = "finished_err"
    /\ wkPc' = "end"
    /\ UNCHANGED <<wkWorker, wkStop, wkStatus, wkExc, rwVars>>
    /\ UNCHANGED notRw

\* request_stop(), called from the UI thread at any time
WkRequestStop ==
    /\ wkWorker # "none" /\ wkPc # "end"
    /\ ~wkStop
    /\ wkStop' = TRUE
    /\ UNCHANGED <<wkWorker, wkPc, wkStatus, wkSignal, wkExc, rwVars, ckVars>>
    /\ UNCHANGED notWk

RwNext ==
    \/ RwBegin \/ RwPlan \/ RwStructure \/ RwNextFile \/ RwChunkRequest \/ RwChunkAttempt
    \/ RwSaveOutFiles \/ RwRecordReceipt \/ RwComplete \/ RwEmitOk
    \/ RwHandleStop \/ RwHandleFailure \/ RwEmitErr

-----------------------------------------------------------------------------
(* CascadeRunWorker: placeholders and expected output files *)

\* relative paths as a cascade definition, a manifest or a placeholder spells them
RelPaths ==
    {<<"a">>, <<"b">>, <<"/", "a">>, <<"a", "/", "/", "b">>, <<"a", "\\", "b">>,
     <<".", ".", "/", "a">>, <<" ">>}

AltOutDir == <<"/", "d">>          \* cascade.default_out_dir
\* <<cfg.out_dir, cascade.default_out_dir>> of a run
OutDirConfigs == {<<OutDir, AltOutDir>>, <<<<" ">>, AltOutDir>>, <<<<>>, <<>>>>}

\* a context value is a string: an id (a number, 0 for "") or a path
NoVal == [n |-> 0, p |-> <<>>]
IdVal(n) == [n |-> n, p |-> <<>>]
PathVal(p) == [n |-> 0, p |-> p]

\* the context key f"step.{idx}.{key}" or f"step.{idx}.{key}:{rel}"
CtxKey(idx, key, rel) == [idx |-> idx, key |-> key, rel |-> rel]

\* str(context.get(key, ""))
CtxGet(ctx, k) == IF k \in DOMAIN ctx THEN ctx[k] ELSE NoVal

\* a placeholder token {{step.N.key}} or {{step.N.key:REL}} as PLACEHOLDER_RE
\* captures it: groups 1, 2 and 3
NoPlaceholder == [n |-> 0, key |-> "none", rel |-> <<>>]
Placeholders(idx) ==
    {NoPlaceholder}
        \cup (IF idx < 2 THEN {}
              ELSE [n : {idx - 1}, key : {"response_id", "json"}, rel : {<<>>}]
                   \cup [n : {idx - 1}, key : {"out_file_path", "out_file_id"}, rel : RelPaths])

\* rel_suffix.replace("\\", "/").strip().lstrip("/") in _resolve_text.repl
PlaceholderRel(rel) == LStripChar(Strip(ReplaceChar(Strip(rel), "\\", "/")), "/")

\* _resolve_text on a text that is one placeholder token: repl(match)
ResolveText(ph, ctx) ==
    IF ph.key \in {"response_id", "json"} THEN CtxGet(ctx, CtxKey(ph.n, ph.key, <<>>))
    ELSE IF ph.key \in {"out_file_path", "out_file_id"}
    THEN IF Strip(ph.rel) = <<>> THEN NoVal
         ELSE CtxGet(ctx, CtxKey(ph.n, ph.key, PlaceholderRel(ph.rel)))
    ELSE NoVal

\* the content parts of the request: input_content_json resolved and sent as
\* it is, or the input_text part followed by an input_file part for each
\* non-empty resolved files_existing_ids entry
ContentParts(site, ph, val) ==
    IF site = "content_json"
    THEN <<[type |-> IF ph.key = "out_file_id" THEN "input_file" ELSE "input_text", val |-> val]>>
    ELSE <<[type |-> "input_text", val |-> NoVal]>>
            \o (IF val # NoVal THEN <<[type |-> "input_file", val |-> val]>> ELSE <<>>)

\* CascadeStep.from_dict: expected_out_files without blank entries
FromDictExpected(declared) ==
    LET NonBlank(x) == Strip(x) # <<>>
    IN  SelectSeq(declared, NonBlank)

\* _normalize_expected_rel_path: [ok, rel]
NormalizeExpectedRelPath(relPath) ==
    LET rel == LStripChar(ReplaceChar(Strip(relPath), "\\", "/"), "/")
        NonEmpty(p) == p # <<>>
        parts == SelectSeq(Split(rel, "/"), NonEmpty)
    IN  IF rel = <<>> THEN [ok |-> FALSE, rel |-> <<>>]
        ELSE IF \E i \in 1..Len(parts) : parts[i] = DotDot THEN [ok |-> FALSE, rel |-> <<>>]
        ELSE [ok |-> TRUE, rel |-> JoinSegs(parts, "/")]

\* _select_out_dir_for_step
SelectOutDirForStep(cfg) == IF Strip(cfg[1]) # <<>> THEN Strip(cfg[1]) ELSE Strip(cfg[2])

\* validate_paths on the manifest rows
ValidatePaths(paths) ==
    \A i \in 1..Len(paths) :
        /\ paths[i] # <<>>
        /\ ~StartsWith(paths[i], "/") /\ ~StartsWith(paths[i], "\\")
        /\ \A k \in 1..Len(Split(paths[i], "/")) : Split(paths[i], "/")[k] # DotDot
        /\ \A k \in 1..Len(paths[i]) : paths[i][k] # "\\"
        /\ \A j \in 1..(i - 1) : paths[j] # paths[i]

\* safe_join_under_root(root, rel): the joined path, refused when it does
\* not stay under root
SafeJoinUnderRoot(root, rel) ==
    LET dst == OsPathJoin(root, rel)
    IN  [ok |-> IsPrefix(Resolve(root), Resolve(dst)), dst |-> dst]

\* _save_manifest_to_out, row by row: [ok, files, dirs] of the disk afterwards
RECURSIVE SaveManifestToOut(_, _, _, _)
SaveManifestToOut(paths, outAbs, files, dirs) ==
    IF paths = <<>> THEN [ok |-> TRUE, files |-> files, dirs |-> dirs]
    ELSE LET norm == NormalizeExpectedRelPath(Head(paths))
             join == SafeJoinUnderRoot(outAbs, norm.rel)
             made == dirs \cup MakedirsVisits(DirName(join.dst))
         IN  IF ~norm.ok \/ ~join.ok \/ ~EnsureDirOk(DirName(join.dst), files)
             THEN [ok |-> FALSE, files |-> files, dirs |-> dirs]
             ELSE IF ~OpenForWriteOk(join.dst, made)
             THEN [ok |-> FALSE, files |-> files, dirs |-> made]
             ELSE SaveManifestToOut(Tail(paths), outAbs, files \cup {Resolve(join.dst)}, made)

\* the normalized manifest: [ok, paths]
RECURSIVE NormalizeManifest(_)
NormalizeManifest(rows) ==
    IF rows = <<>> THEN [ok |-> TRUE, paths |-> <<>>]
    ELSE LET norm == NormalizeExpectedRelPath(Head(rows))
             rest == NormalizeManifest(Tail(rows))
         IN  [ok |-> norm.ok /\ rest.ok, paths |-> <<norm.rel>> \o rest.paths]

SeqRange(s) == {s[i] : i \in 1..Len(s)}

\* a manifest check that reports nothing missing
NothingMissing(expected, manifestPaths) == {}

\* missing_manifest = [rel for rel in expected if rel not in manifest_paths]
MissingManifest(expected, manifestPaths) == {rel \in SeqRange(expected) : rel \notin manifestPaths}

\* the upload loop of _process_expected_out_files from expected[k] on; the
\* first okUploads uploads return a fresh file id, the next one fails
RECURSIVE UploadExpected(_, _, _, _, _, _, _, _)
UploadExpected(expected, k, idx, outAbs, files, ctx, fid, okUploads) ==
    IF k > Len(expected) THEN [ok |-> TRUE, ctx |-> ctx, fid |-> fid, ids |-> <<>>]
    ELSE LET join == SafeJoinUnderRoot(outAbs, expected[k])
         IN  IF ~join.ok \/ Resolve(join.dst) \notin files \/ k > okUploads
             THEN [ok |-> FALSE, ctx |-> ctx, fid |-> fid, ids |-> <<>>]
             ELSE LET ctx1 == MapPut(ctx, CtxKey(idx, "out_file_path", expected[k]), PathVal(join.dst))
                      ctx2 == MapPut(ctx1, CtxKey(idx, "out_file_id", expected[k]), IdVal(fid))
                      rest == UploadExpected(expected, k + 1, idx, outAbs, files, ctx2, fid + 1, okUploads)
                  IN  [rest EXCEPT !.ids = <<fid>> \o @]

\* _process_expected_out_files(step, idx, json_output, context, client)
ProcessExpectedOutFiles(declared, idx, json, ctx, files, dirs, cfg, fid, okUploads) ==
    LET raw == FromDictExpected(declared)
        expected == [i \in 1..Len(raw) |-> NormalizeExpectedRelPath(raw[i]).rel]
        outDir == SelectOutDirForStep(cfg)
        res(ok, c, f, d, n, m, ids) ==
            [ok |-> ok, ctx |-> c, files |-> f, dirs |-> d, fid |-> n, manifest |-> m, ids |-> ids]
        fail == res(FALSE, ctx, files, dirs, fid, {}, <<>>)
    IN  IF \E i \in 1..Len(raw) : ~NormalizeExpectedRelPath(raw[i]).ok THEN fail
        ELSE IF expected = <<>> THEN res(TRUE, ctx, files, dirs, fid, {}, <<>>)
        ELSE IF outDir = <<>> THEN fail
        ELSE IF ~json.isDict \/ ~json.hasFiles THEN fail
        ELSE LET nm == NormalizeManifest(json.files)
             IN  IF ~nm.ok \/ ~ValidatePaths(nm.paths) THEN fail
                 ELSE LET saved == SaveManifestToOut(nm.paths, outDir, files,
                                                    dirs \cup MakedirsVisits(outDir))
                      IN  IF ~saved.ok \/ MissingManifest(expected, SeqRange(nm.paths)) # {}
                          THEN res(FALSE, ctx, saved.files, saved.dirs, fid, {}, <<>>)
                          ELSE LET up == UploadExpected(expected, 1, idx, outDir, saved.files,
                                                        ctx, fid, okUploads)
                               IN  res(up.ok, up.ctx, saved.files, saved.dirs, up.fid,
                                       SeqRange(nm.paths), up.ids)

-----------------------------------------------------------------------------
(* CascadeRunWorker.run *)

NoPayload == [idx |-> 0, ph |-> NoPlaceholder, val |-> NoVal, parts |-> <<>>]
NoJson == [isDict |-> FALSE, hasFiles |-> FALSE, files |-> <<>>]
NoLast == [idx |-> 0, rid |-> NoId, json |-> FALSE, declared |-> <<>>, manifest |-> {}, ids |-> <<>>]

ManifestLists == UNION {[1..n -> RelPaths] : n \in 0..MaxManifest}
DeclaredLists == UNION {[1..n -> RelPaths] : n \in 0..MaxExpected}

\* the body of a step's response as extract_text_from_response returns it
StepBodies ==
    [shape : {"object"}, hasFiles : {TRUE}, files : ManifestLists]
        \cup [shape : {"object", "text"}, hasFiles : {FALSE}, files : {<<>>}]

CkInit ==
    /\ ckN = 0
    /\ ckIdx = 0
    /\ ckOutCfg \in (IF wkWorker = "cascade" THEN OutDirConfigs ELSE {<<<<>>, <<>>>>})
    /\ ckContext = <<>>
    /\ ckDiskFiles = {}
    /\ ckDiskDirs = {<<>>}
    /\ ckNextFid = 1
    /\ ckPayload = NoPayload
    /\ ckJson = NoJson
    /\ ckLast = NoLast

ckRun == <<ckN, ckOutCfg>>
ckStepVars == <<ckIdx, ckContext, ckDiskFiles, ckDiskDirs, ckNextFid, ckPayload, ckJson, ckLast>>

\* run() up to the step loop: CascadeLogger(...) outside the try-block, then
\* update_state(running); a failing logger constructor ends the thread
CkBegin ==
    /\ wkWorker = "cascade" /\ wkPc = "start"
    /\ \/ /\ wkPc' = "end" /\ UNCHANGED <<wkStatus, wkExc, ckN>>
       \/ /\ wkStatus' = "created" /\ Raise("error") /\ UNCHANGED ckN
       \/ /\ wkStatus' = "running" /\ wkPc' = "step" /\ UNCHANGED wkExc
          /\ \E n \in 0..MaxSteps : ckN' = n
    /\ UNCHANGED <<wkWorker, wkStop, wkSignal, ckOutCfg, ckStepVars, rwVars>>
    /\ UNCHANGED notWk

\* a step up to its request: _check_stop, resolve the placeholders of the
\* step, build and save the payload
CkStepRequest ==
    /\ wkWorker = "cascade" /\ wkPc = "step"
    /\ ckIdx < ckN
    /\ IF wkStop
       THEN Raise("STOP_REQUESTED") /\ UNCHANGED ckPayload
       ELSE /\ \E ph \in Placeholders(ckIdx + 1), site \in {"content_json", "existing_ids"} :
                 /\ site = "existing_ids" => ph.key = "out_file_id"
                 /\ ckPayload' = [idx |-> ckIdx + 1, ph |-> ph,
                                  val |-> ResolveText(ph, ckContext),
                                  parts |-> ContentParts(site, ph, ResolveText(ph, ckContext))]
            /\ wkPc' = "respond"
            /\ UNCHANGED wkExc
    /\ UNCHANGED <<wkWorker, wkStop, wkStatus, wkSignal, ckRun, ckIdx, ckContext, ckDiskFiles,
                   ckDiskDirs, ckNextFid, ckJson, ckLast, rwVars>>
    /\ UNCHANGED notWk

\* create_response, save the response, context response_id, and for a json
\* step (output_type json with the manifest schema or a custom one)
\* parse_json_strict, _validate_json_output, context json
CkStepResponse ==
    /\ wkWorker = "cascade" /\ wkPc = "respond"
    /\ \/ Raise("error") /\ UNCHANGED <<ckContext, ckJson>>     \* with_retry gives up
       \/ \E hasId \in BOOLEAN, body \in StepBodies, kind \in {"text", "manifest", "custom"} :
            /\ kind = "text" => body.shape = "text"      \* the text of a text step is not read
            /\ LET idx == ckPayload.idx
                   ctx1 == IF hasId THEN MapPut(ckContext, CtxKey(idx, "response_id", <<>>), IdVal(idx))
                           ELSE ckContext
                   parsed == ParseJsonStrict(body)
               IN  IF kind = "text"
                   THEN /\ ckContext' = ctx1
                        /\ ckJson' = NoJson
                        /\ wkPc' = "expected" /\ UNCHANGED wkExc
                   ELSE IF ~parsed.ok \/ (kind = "manifest" /\ ~body.hasFiles)
                   THEN /\ ckContext' = ctx1
                        /\ Raise("error") /\ UNCHANGED ckJson
                   ELSE /\ ckContext' = MapPut(ctx1, CtxKey(idx, "json", <<>>), IdVal(idx))
                        /\ ckJson' = [isDict |-> TRUE, hasFiles |-> body.hasFiles, files |-> body.files]
                        /\ wkPc' = "expected" /\ UNCHANGED wkExc
    /\ ckPayload' = [NoPayload EXCEPT !.idx = ckPayload.idx]
    /\ UNCHANGED <<wkWorker, wkStop, wkStatus, wkSignal, ckRun, ckIdx, ckDiskFiles, ckDiskDirs,
                   ckNextFid, ckLast, rwVars>>
    /\ UNCHANGED notWk

\* _process_expected_out_files and the end of the step
CkStepExpected ==
    /\ wkWorker = "cascade" /\ wkPc = "expected"
    /\ \E declared \in DeclaredLists, okUploads \in 0..MaxExpected :
         LET idx == ckPayload.idx
             r == ProcessExpectedOutFiles(declared, idx, ckJson, ckContext, ckDiskFiles,
                                          ckDiskDirs, ckOutCfg, ckNextFid, okUploads)
         IN  /\ okUploads <= Len(FromDictExpected(declared))
             /\ ckContext' = r.ctx
             /\ ckDiskFiles' = r.files
             /\ ckDiskDirs' = r.dirs
             /\ ckNextFid' = r.fid
             /\ IF r.ok
                THEN /\ ckLast' = [idx |-> idx,
                                   rid |-> CtxGet(ckContext, CtxKey(idx, "response_id", <<>>)).n,
                                   json |-> ckJson.isDict,
                                   declared |-> FromDictExpected(declared),
                                   manifest |-> r.manifest,
                                   ids |-> r.ids]
                     /\ ckIdx' = idx
                     /\ wkPc' = "step" /\ UNCHANGED wkExc
                ELSE Raise("error") /\ UNCHANGED <<ckLast, ckIdx>>
    /\ ckJson' = NoJson
    /\ ckPayload' = NoPayload
    /\ UNCHANGED <<wkWorker, wkStop, wkStatus, wkSignal, ckRun, rwVars>>
    /\ UNCHANGED notWk

\* after the loop: update_state({"status": "completed", ...})
CkComplete ==
    /\ wkWorker = "cascade" /\ wkPc = "step"
    /\ ckIdx = ckN
    /\ \/ wkStatus' = "completed" /\ wkPc' = "emit_ok" /\ UNCHANGED wkExc
       \/ Raise("error") /\ UNCHANGED wkStatus
    /\ UNCHANGED <<wkWorker, wkStop, wkSignal, ckVars, rwVars>>
    /\ UNCHANGED notWk

\* logger.event("cascade.completed", result); finished_ok.emit(result)
CkEmitOk ==
    /\ wkWorker = "cascade" /\ wkPc = "emit_ok"
    /\ \/ wkSignal' = "finished_ok" /\ wkPc' = "end" /\ UNCHANGED wkExc
       \/ Raise("error") /\ UNCHANGED wkSignal        \* the event write fails
    /\ UNCHANGED <<wkWorker, wkStop, wkStatus, ckVars, rwVars>>
    /\ UNCHANGED notWk

\* `except Exception`: logger.event("cascade.failed"), update_state(failed);
\* either write failing leaves run() with the exception
CkHandle ==
    /\ wkWorker = "cascade" /\ wkPc = "except"
    /\ \/ wkStatus' = "failed" /\ wkPc' = "emit_err"
       \/ wkPc' = "end" /\ UNCHANGED wkStatus
    /\ UNCHANGED <<wkWorker, wkStop, wkSignal, wkExc, ckVars, rwVars>>
    /\ UNCHANGED notWk

\* finished_err.emit(msg)
CkEmitErr ==
    /\ wkWorker = "cascade" /\ wkPc = "emit_err"
    /\ wkSignal' = "finished_err"
    /\ wkPc' = "end"
    /\ UNCHANGED <<wkWorker, wkStop, wkStatus, wkExc, ckVars, rwVars>>
    /\ UNCHANGED notWk

CkNext ==
    \/ CkBegin \/ CkStepRequest \/ CkStepResponse \/ CkStepExpected
    \/ CkComplete \/ CkEmitOk \/ CkHandle \/ CkEmitErr

-----------------------------------------------------------------------------
(* RunWorker.run in every mode: remote calls, stop checks, receipts.       *)
(* Diagnostics IN is off (cfg.diag_windows_in, cfg.diag_ssh_in false), the *)
(* api key is set, the LOG directory and the receipt database are writable. *)

RunModes == {"GENERATE", "MODIFY", "QA", "QFILE"}

\* cfg.mode, cfg.send_as_c, model_caps.get("supports_previous_response_id")
\* ("absent" for a snapshot without the key), cfg.resume_files non-empty,
\* cfg.in_dir names a directory, the model supports vector stores and
\* file_search and cfg.use_file_search is on, len(cfg.prompt) > 150000
RunConfigs ==
    [mode : RunModes, batch : BOOLEAN, prevId : {"true", "false", "absent"},
     resume : BOOLEAN, inDir : BOOLEAN, stores : BOOLEAN, longPrompt : BOOLEAN]

RejectsMessage == "Selected model explicitly rejects previous_response_id (required for cascades)."
QfileBatchMessage == "QFILE nepodporuje SEND AS BATCH."
IngestMessage == "Long prompt ingest requires previous_response_id (model flagged as unsupported)."
\* self._last_prev_id_error (written here without diacritics)
PrevIdMessage == "Response ID je neplatne nebo expirovane (API odmitlo previous_response_id). Ukoncuji RUN."
UnboundFiles == "local variable 'files' referenced before assignment"

\* a capability check that lets every model through
NeverRejects(cfg) == FALSE

\* (not send_as_c) and mode in ("GENERATE", "MODIFY") and
\* model_caps.get("supports_previous_response_id") is False
CapsRejects(cfg) ==
    ~cfg.batch /\ cfg.mode \in {"GENERATE", "MODIFY"} /\ cfg.prevId = "false"

\* the branch of run() that follows the long-prompt handling
Dispatch(cfg) ==
    IF cfg.batch THEN "batch"
    ELSE CASE cfg.mode = "GENERATE" -> "plan"
           [] cfg.mode = "MODIFY" -> "mirror"
           [] cfg.mode = "QA" -> "qa"
           [] cfg.mode = "QFILE" -> "qfile"

\* the receipt _record_receipt inserts, and the one _ensure_receipt_on_failure inserts
ModeReceipt(flow) == [kind |-> "mode", flow |-> flow, rid |-> TRUE]
FallbackReceipt(flow) == [kind |-> "fallback", flow |-> flow, rid |-> FALSE]

RnInit ==
    /\ rnCfg \in (IF wkWorker = "run" THEN RunConfigs
                  ELSE {[mode |-> "GENERATE", batch |-> FALSE, prevId |-> "true",
                         resume |-> FALSE, inDir |-> FALSE, stores |-> FALSE,
                         longPrompt |-> FALSE]})
    /\ rnFiles = [n |-> 0, done |-> 0]
    /\ rnRemote = FALSE
    /\ rnAfterStop = FALSE
    /\ rnSwallowed = FALSE
    /\ rnHasReceipt = FALSE
    /\ rnReceipts = <<>>
    /\ rnMsg = ""

\* with_retry(lambda: client.<call>(...)): the call is issued whatever _stop is
IssueCall == rnRemote' = TRUE /\ rnAfterStop' = (rnAfterStop \/ wkStop)
NoCall == UNCHANGED <<rnRemote, rnAfterStop>>

\* a `try: ... self._check_stop() ... except Exception` around vector-store
\* work: a STOP_REQUESTED raised inside is caught there
MayCatchStop ==
    rnSwallowed' \in (IF wkStop THEN {rnSwallowed, TRUE} ELSE {rnSwallowed})

rnBilling == <<rnHasReceipt, rnReceipts>>

\* run() up to the capability check: update_state(running), the QFILE/batch
\* check, the previous_response_id check
RnBegin ==
    /\ wkWorker = "run" /\ wkPc = "start"
    /\ wkStatus' = "running"
    /\ IF rnCfg.mode = "QFILE" /\ rnCfg.batch THEN Raise(QfileBatchMessage)
       ELSE IF CapsRejects(rnCfg) THEN Raise(RejectsMessage)
       ELSE wkPc' = "in_dir" /\ UNCHANGED wkExc
    /\ NoCall
    /\ UNCHANGED <<wkWorker, wkStop, wkSignal, rnCfg, rnFiles, rnSwallowed, rnBilling, rnMsg>>
    /\ UNCHANGED notRn

\* _prepare_in_dir_upload: zip + upload_file, then for a model with vector
\* stores create_vector_store, add_file_to_vector_store and
\* _wait_vector_store_files inside try/except Exception
RnPrepareInDir ==
    /\ wkWorker = "run" /\ wkPc = "in_dir"
    /\ IF ~rnCfg.inDir
       THEN wkPc' = "pricing" /\ NoCall /\ UNCHANGED <<wkExc, rnSwallowed>>
       ELSE /\ IssueCall
            /\ \/ Raise("error") /\ UNCHANGED rnSwallowed
               \/ /\ wkPc' = "pricing" /\ UNCHANGED wkExc
                  /\ IF rnCfg.stores THEN MayCatchStop ELSE UNCHANGED rnSwallowed
    /\ UNCHANGED <<wkWorker, wkStop, wkStatus, wkSignal, rnCfg, rnFiles, rnBilling, rnMsg>>
    /\ UNCHANGED notRn

\* _refresh_pricing_via_model: create_response inside try/except, no stop check
RnRefreshPricing ==
    /\ wkWorker = "run" /\ wkPc = "pricing"
    /\ IssueCall
    /\ wkPc' = "ingest"
    /\ UNCHANGED <<wkWorker, wkStop, wkStatus, wkSignal, wkExc, rnCfg, rnFiles, rnSwallowed,
                   rnBilling, rnMsg>>
    /\ UNCHANGED notRn

\* the long-prompt handling: _ingest_prompt_if_needed for GENERATE / MODIFY
\* (per part _check_stop, then create_response), nothing otherwise
RnIngest ==
    /\ wkWorker = "run" /\ wkPc = "ingest"
    /\ IF rnCfg.batch \/ rnCfg.mode \notin {"GENERATE", "MODIFY"} \/ ~rnCfg.longPrompt
       THEN wkPc' = Dispatch(rnCfg) /\ NoCall /\ UNCHANGED wkExc
       ELSE IF rnCfg.prevId = "false" THEN Raise(IngestMessage) /\ NoCall
       ELSE IF wkStop THEN Raise("STOP_REQUESTED") /\ NoCall
       ELSE /\ IssueCall
            /\ \/ Raise("error")
               \/ wkPc' = Dispatch(rnCfg) /\ UNCHANGED wkExc
    /\ UNCHANGED <<wkWorker, wkStop, wkStatus, wkSignal, rnCfg, rnFiles, rnSwallowed,
                   rnBilling, rnMsg>>
    /\ UNCHANGED notRn

\* _run_b_modify up to the vector store: scan, manifest upload_file, then the
\* upload loop with _check_stop before each upload
RnMirror ==
    /\ wkWorker = "run" /\ wkPc = "mirror"
    /\ IssueCall
    /\ \/ Raise("error")
       \/ \E items \in BOOLEAN :
            IF items /\ wkStop THEN Raise("STOP_REQUESTED")
            ELSE wkPc' = "vector" /\ UNCHANGED wkExc
    /\ UNCHANGED <<wkWorker, wkStop, wkStatus, wkSignal, rnCfg, rnFiles, rnSwallowed,
                   rnBilling, rnMsg>>
    /\ UNCHANGED notRn

\* _run_b_modify, `if supports_fs: try: create_vector_store ... _check_stop ...
\* _wait_vector_store_files ... except Exception`
RnVectorStore ==
    /\ wkWorker = "run" /\ wkPc = "vector"
    /\ IF rnCfg.stores THEN IssueCall /\ MayCatchStop
       ELSE NoCall /\ UNCHANGED rnSwallowed
    /\ wkPc' = "plan"
    /\ UNCHANGED <<wkWorker, wkStop, wkStatus, wkSignal, wkExc, rnCfg, rnFiles, rnBilling, rnMsg>>
    /\ UNCHANGED notRn

\* A1 / B1: create_response and the contract check; a resumed GENERATE skips
\* A1 and A2 and reaches `total_files = len(files)` with `files` unassigned
RnPlan ==
    /\ wkWorker = "run" /\ wkPc = "plan"
    /\ IF rnCfg.mode = "GENERATE" /\ rnCfg.resume
       THEN Raise(UnboundFiles) /\ NoCall
       ELSE /\ IssueCall
            /\ \/ Raise("error")
               \/ wkPc' = "structure" /\ UNCHANGED wkExc
    /\ UNCHANGED <<wkWorker, wkStop, wkStatus, wkSignal, rnCfg, rnFiles, rnSwallowed,
                   rnBilling, rnMsg>>
    /\ UNCHANGED notRn

\* A2 / B2: create_response, the contract check, the file filter (the GENERATE
\* filter calls _check_stop per file)
RnStructure ==
    /\ wkWorker = "run" /\ wkPc = "structure"
    /\ IssueCall
    /\ \/ Raise("error") /\ UNCHANGED rnFiles
       \/ \E n \in 0..MaxFiles :
            IF rnCfg.mode = "GENERATE" /\ n > 0 /\ wkStop
            THEN Raise("STOP_REQUESTED") /\ UNCHANGED rnFiles
            ELSE /\ rnFiles' = [n |-> n, done |-> 0]
                 /\ wkPc' = "files" /\ UNCHANGED wkExc
    /\ UNCHANGED <<wkWorker, wkStop, wkStatus, wkSignal, rnCfg, rnSwallowed, rnBilling, rnMsg>>
    /\ UNCHANGED notRn

\* one file of the A3 / B3 loop: _check_stop, then _gen_file_chunks
RnFile ==
    /\ wkWorker = "run" /\ wkPc = "files"
    /\ rnFiles.done < rnFiles.n
    /\ IF wkStop THEN Raise("STOP_REQUESTED") /\ NoCall /\ UNCHANGED rnFiles
       ELSE /\ IssueCall
            /\ \/ Raise("error") /\ UNCHANGED rnFiles
               \/ Raise("previous_response_id") /\ UNCHANGED rnFiles
               \/ /\ rnFiles' = [rnFiles EXCEPT !.done = @ + 1]
                  /\ UNCHANGED <<wkPc, wkExc>>
    /\ UNCHANGED <<wkWorker, wkStop, wkStatus, wkSignal, rnCfg, rnSwallowed, rnBilling, rnMsg>>
    /\ UNCHANGED notRn

\* _save_out_files(out_files) after the loop (_check_stop before each file)
RnSave ==
    /\ wkWorker = "run" /\ wkPc = "files"
    /\ rnFiles.done = rnFiles.n
    /\ IF wkStop /\ rnFiles.n > 0 THEN Raise("STOP_REQUESTED")
       ELSE \/ Raise("error")
            \/ wkPc' = "receipt" /\ UNCHANGED wkExc
    /\ NoCall
    /\ UNCHANGED <<wkWorker, wkStop, wkStatus, wkSignal, rnCfg, rnFiles, rnSwallowed,
                   rnBilling, rnMsg>>
    /\ UNCHANGED notRn

\* _record_receipt(resp2, mode, flow_type, response_id=resp2_id) of GENERATE / MODIFY
RnReceipt ==
    /\ wkWorker = "run" /\ wkPc = "receipt"
    /\ rnReceipts' = Append(rnReceipts, ModeReceipt(rnCfg.mode))
    /\ rnHasReceipt' = TRUE
    /\ wkPc' = "complete"
    /\ NoCall
    /\ UNCHANGED <<wkWorker, wkStop, wkStatus, wkSignal, wkExc, rnCfg, rnFiles, rnSwallowed, rnMsg>>
    /\ UNCHANGED notRn

\* _run_qa: create_response, then _record_receipt
RnQa ==
    /\ wkWorker = "run" /\ wkPc = "qa"
    /\ IssueCall
    /\ \/ Raise("error") /\ UNCHANGED rnBilling
       \/ /\ rnReceipts' = Append(rnReceipts, ModeReceipt("QA"))
          /\ rnHasReceipt' = TRUE
          /\ wkPc' = "complete" /\ UNCHANGED wkExc
    /\ UNCHANGED <<wkWorker, wkStop, wkStatus, wkSignal, rnCfg, rnFiles, rnSwallowed, rnMsg>>
    /\ UNCHANGED notRn

\* _run_qfile: _check_stop, create_response, the contract checks,
\* _save_out_files, _record_receipt
RnQfile ==
    /\ wkWorker = "run" /\ wkPc = "qfile"
    /\ IF wkStop THEN Raise("STOP_REQUESTED") /\ NoCall /\ UNCHANGED rnBilling
       ELSE \/ Raise("error") /\ NoCall /\ UNCHANGED rnBilling      \* empty prompt
            \/ IssueCall /\ Raise("error") /\ UNCHANGED rnBilling
            \/ /\ IssueCall
               /\ rnReceipts' = Append(rnReceipts, ModeReceipt("QFILE"))
               /\ rnHasReceipt' = TRUE
               /\ wkPc' = "complete" /\ UNCHANGED wkExc
    /\ UNCHANGED <<wkWorker, wkStop, wkStatus, wkSignal, rnCfg, rnFiles, rnSwallowed, rnMsg>>
    /\ UNCHANGED notRn

\* _run_c_batch: upload_file(jsonl), create_batch, update_state(batch_id); it
\* returns without a receipt
RnBatch ==
    /\ wkWorker = "run" /\ wkPc = "batch"
    /\ IssueCall
    /\ \/ Raise("error")
       \/ wkPc' = "complete" /\ UNCHANGED wkExc
    /\ UNCHANGED <<wkWorker, wkStop, wkStatus, wkSignal, rnCfg, rnFiles, rnSwallowed,
                   rnBilling, rnMsg>>
    /\ UNCHANGED notRn

\* update_state({"status": "completed"})
RnComplete ==
    /\ wkWorker = "run" /\ wkPc = "complete"
    /\ wkStatus' = "completed"
    /\ wkPc' = "emit_ok"
    /\ UNCHANGED <<wkWorker, wkStop, wkSignal, wkExc, rnVars>>
    /\ UNCHANGED notRn

\* finished_ok.emit(result)
RnEmitOk ==
    /\ wkWorker = "run" /\ wkPc = "emit_ok"
    /\ wkSignal' = "finished_ok"
    /\ wkPc' = "end"
    /\ UNCHANGED <<wkWorker, wkStop, wkStatus, wkExc, rnVars>>
    /\ UNCHANGED notRn

\* `except BaseException`: update_state(stopped | failed), then
\* _ensure_receipt_on_failure
RnHandle ==
    /\ wkWorker = "run" /\ wkPc = "except"
    /\ LET stop == wkExc = "STOP_REQUESTED"
       IN  /\ wkStatus' = (IF stop THEN "stopped" ELSE "failed")
           /\ rnReceipts' = (IF rnHasReceipt THEN rnReceipts
                             ELSE Append(rnReceipts,
                                  FallbackReceipt(IF stop THEN "RUN_STOPPED" ELSE "RUN_FAILED")))
    /\ rnHasReceipt' = TRUE
    /\ wkPc' = "emit_err"
    /\ UNCHANGED <<wkWorker, wkStop, wkSignal, wkExc, rnCfg, rnFiles, rnRemote, rnAfterStop,
                   rnSwallowed, rnMsg>>
    /\ UNCHANGED notRn

\* finished_err.emit("STOPPED") / finished_err.emit(msg), msg being
\* _last_prev_id_error when set and str(e) otherwise
RnEmitErr ==
    /\ wkWorker = "run" /\ wkPc = "emit_err"
    /\ wkSignal' = "finished_err"
    /\ rnMsg' = (IF wkExc = "STOP_REQUESTED" THEN "STOPPED"
                 ELSE IF wkExc = "previous_response_id" THEN PrevIdMessage
                 ELSE wkExc)
    /\ wkPc' = "end"
    /\ UNCHANGED <<wkWorker, wkStop, wkStatus, wkExc, rnCfg, rnFiles, rnRemote, rnAfterStop,
                   rnSwallowed, rnBilling>>
    /\ UNCHANGED notRn

RnNext ==
    \/ RnBegin \/ RnPrepareInDir \/ RnRefreshPricing \/ RnIngest \/ RnMirror
    \/ RnVectorStore \/ RnPlan \/ RnStructure \/ RnFile \/ RnSave \/ RnReceipt
    \/ RnQa \/ RnQfile \/ RnBatch \/ RnComplete \/ RnEmitOk \/ RnHandle \/ RnEmitErr

-----------------------------------------------------------------------------
(* RunLogger: redaction of what is written to the LOG directory *)

\* str.lower() on the letters the model's strings use
LowerChar(c) ==
    CASE c = "B" -> "b" [] c = "E" -> "e" [] c = "A" -> "a" [] c = "R" -> "r"
      [] c = "T" -> "t" [] c = "O" -> "o" [] c = "K" -> "k" [] c = "N" -> "n"
      [] OTHER -> c
Lower(s) == [i \in 1..Len(s) |-> LowerChar(s[i])]

\* `sub in s`
Contains(sub, s) ==
    \E i \in 0..(Len(s) - Len(sub)) : SubSeq(s, i + 1, i + Len(sub)) = sub

\* _REDACT_KEYS
RedactKeys ==
    {<<"a", "u", "t", "h", "o", "r", "i", "z", "a", "t", "i", "o", "n">>,
     <<"a", "p", "i", "_", "k", "e", "y">>,
     <<"o", "p", "e", "n", "a", "i", "_", "a", "p", "i", "_", "k", "e", "y">>,
     <<"p", "a", "s", "s", "w", "o", "r", "d">>,
     <<"s", "s", "h", "_", "p", "a", "s", "s", "w", "o", "r", "d">>,
     <<"s", "m", "t", "p", "_", "p", "a", "s", "s", "w", "o", "r", "d">>,
     <<"t", "o", "k", "e", "n">>,
     <<"b", "e", "a", "r", "e", "r">>}

Placeholder == <<"*", "*", "*", "R", "E", "D", "A", "C", "T", "E", "D", "*", "*", "*">>
BearerSp == <<"b", "e", "a", "r", "e", "r", " ">>

\* Logged data: a string inside nested containers. A container holds one
\* item: a dict entry under a key, a list item or a tuple item; wraps lists the
\* containers from the outside in.
LogKeys == {<<"T", "o", "k", "e", "n">>, <<"t", "o", "k", "e", "n">>, <<"n", "o", "t", "e">>}
LogLeaves == {<<"o", "k">>, <<"B", "e", "a", "r", "e", "r", " ", "k">>,
              <<"b", "e", "a", "r", "e", "r", " ", "k">>}
Wrappers ==
    [t : {"dict"}, k : LogKeys] \cup [t : {"list", "tuple"}, k : {<<>>}]
LogValues ==
    [wraps : UNION {[1..n -> Wrappers] : n \in 0..MaxDepth}, leaf : LogLeaves]
\* a dict (the type of `patch` and of event `data`)
LogDicts == {v \in LogValues : v.wraps # <<>> /\ v.wraps[1].t = "dict"}

\* _redact(data), data being the item at depth i of v: dicts by key, lists
\* item by item, strings by content, anything else (a tuple) as it is
RECURSIVE RedactFrom(_, _)
RedactFrom(v, i) ==
    IF i > Len(v.wraps)
    THEN IF Contains(BearerSp, Lower(v.leaf)) THEN [v EXCEPT !.leaf = Placeholder] ELSE v
    ELSE IF v.wraps[i].t = "dict"
    THEN IF Lower(v.wraps[i].k) \in RedactKeys
         THEN [wraps |-> SubSeq(v.wraps, 1, i), leaf |-> Placeholder]
         ELSE RedactFrom(v, i + 1)
    ELSE IF v.wraps[i].t = "list" THEN RedactFrom(v, i + 1)
    ELSE v

Redact(v) == RedactFrom(v, 1)

\* json.dump / json.dumps: a tuple is written as an array
JsonDump(v) ==
    [v EXCEPT !.wraps = [i \in 1..Len(v.wraps) |->
        IF v.wraps[i].t = "tuple" THEN [t |-> "list", k |-> <<>>] ELSE v.wraps[i]]]

LgInit ==
    /\ lgEvents = <<>>
    /\ lgState = <<>>
    /\ lgBlobs = {}

LgWrites == Len(lgEvents) + Len(lgState) + Cardinality(lgBlobs)

\* event(typ, data): one line appended to events.jsonl
LgEvent ==
    /\ LgWrites < MaxLogWrites
    /\ \E data \in LogDicts : lgEvents' = Append(lgEvents, JsonDump(Redact(data)))
    /\ UNCHANGED <<lgState, lgBlobs>>
    /\ UNCHANGED notLg

\* update_state(patch): run_state.json read, state.update(_redact(patch)), written
LgUpdateState ==
    /\ LgWrites < MaxLogWrites
    /\ \E patch \in LogDicts :
         LET red == JsonDump(Redact(patch))
             kept == SelectSeq(lgState, LAMBDA e : e.wraps[1].k # patch.wraps[1].k)
         IN  lgState' = Append(kept, red)
    /\ UNCHANGED <<lgEvents, lgBlobs>>
    /\ UNCHANGED notLg

\* save_json(kind, name, obj): the blob, then the file.saved event (a path
\* and a size)
LgSaveJson ==
    /\ LgWrites < MaxLogWrites
    /\ \E obj \in LogValues : lgBlobs' = lgBlobs \cup {JsonDump(Redact(obj))}
    /\ UNCHANGED <<lgEvents, lgState>>
    /\ UNCHANGED notLg

LgNext == LgEvent \/ LgUpdateState \/ LgSaveJson

-----------------------------------------------------------------------------
(* Remote calls: OpenAIClient._req under with_retry and a CircuitBreaker.   *)
(* The thunk is a client method on its _req path (client._sdk is None).     *)

ClientMaxAttempts == 4          \* OpenAIClient.max_attempts

\* status codes of an HTTP response, and the exceptions session.request raises
StatusCodes == {200, 302, 400, 429, 501, 503}
NetErrors == {"Timeout", "ConnectionError", "SSLError"}
\* a word of an error text: a number followed by ":" or anything else
Word(code, colon) == [code |-> code, colon |-> colon]
\* _safe_err_excerpt(r.text) / str(ex): the words after "<status>:" or "failed:"
Excerpts == {<<>>, <<Word(0, FALSE), Word(500, TRUE)>>}

\* what one session.request produces
HttpOutcomes ==
    [kind : {"response"}, status : StatusCodes, text : Excerpts]
        \cup [kind : NetErrors, status : {0}, text : {<<>>}]

\* _should_retry(status_code, error)
ShouldRetry(o) ==
    IF o.kind # "response" THEN o.kind \in {"Timeout", "ConnectionError"}
    ELSE o.status = 429 \/ (500 <= o.status /\ o.status < 600)

\* OpenAIError(f"{method} {path} -> {status}: {excerpt}") and
\* OpenAIError(f"{method} {path} failed: {excerpt}"), as words after the path
ErrorText(o) ==
    IF o.kind = "response" THEN <<Word(0, FALSE), Word(o.status, TRUE)>> \o o.text
    ELSE <<Word(0, TRUE)>> \o o.text

NoError == [type |-> "none", text |-> <<>>]
OpenAIError(o) == [type |-> "OpenAIError", text |-> ErrorText(o)]
RetryFailed == [type |-> "RuntimeError", text |-> <<>>]

\* any(code in msg for code in (" 429:", " 500:", " 502:", " 503:", " 504:"))
Transient(e) ==
    \E i \in 2..Len(e.text) :
        e.text[i].colon /\ e.text[i].code \in {429, 500, 502, 503, 504}

NoHard == [seen |-> FALSE, http |-> 0, thunks |-> 0, fails |-> 0]

RtInit ==
    /\ rtPc = "idle"
    /\ rtCalls = 0
    /\ rtAttempt = 0
    /\ rtReqAttempt = 0
    /\ rtHttp = 0
    /\ rtHttpAll = 0
    /\ rtThunks = 0
    /\ rtFails = 0
    /\ rtLast = NoError
    /\ rtLastOutcome = "none"
    /\ rtResult = NoError
    /\ rtHard = NoHard
    /\ brCount = 0
    /\ brOpen = FALSE

\* a caller enters with_retry(fn, policy, breaker)
RtCall ==
    /\ rtPc \in {"idle", "done"}
    /\ rtCalls < MaxCalls
    /\ rtCalls' = rtCalls + 1
    /\ rtPc' = "loop"
    /\ rtAttempt' = 1
    /\ rtReqAttempt' = 0 /\ rtHttp' = 0 /\ rtHttpAll' = 0
    /\ rtThunks' = 0 /\ rtFails' = 0
    /\ rtLast' = NoError /\ rtLastOutcome' = "none" /\ rtResult' = NoError
    /\ rtHard' = NoHard
    /\ UNCHANGED <<brCount, brOpen>>
    /\ UNCHANGED notRt

\* with_retry, top of `for attempt in range(1, policy.max_attempts + 1)`:
\* the loop ends (raise last / retry_failed), the open breaker skips the
\* attempt, or fn() is entered
RtLoop ==
    /\ rtPc = "loop"
    /\ IF rtAttempt > PolicyMaxAttempts
       THEN /\ rtPc' = "done"
            /\ rtResult' = (IF rtLast.type # "none" THEN rtLast ELSE RetryFailed)
            /\ UNCHANGED <<rtAttempt, rtReqAttempt, rtHttp, rtThunks>>
       ELSE IF brOpen
       THEN /\ rtAttempt' = rtAttempt + 1
            /\ UNCHANGED <<rtPc, rtResult, rtReqAttempt, rtHttp, rtThunks>>
       ELSE /\ rtPc' = "req"
            /\ rtThunks' = rtThunks + 1
            /\ rtReqAttempt' = 1
            /\ rtHttp' = 0
            /\ UNCHANGED <<rtAttempt, rtResult>>
    /\ UNCHANGED <<rtCalls, rtHttpAll, rtFails, rtLast, rtLastOutcome, rtHard, brCount, brOpen>>
    /\ UNCHANGED notRt

\* fn() returned: breaker.on_success(), return out
ThunkReturns ==
    /\ rtPc' = "done"
    /\ rtResult' = [type |-> "returned", text |-> <<>>]
    /\ rtLastOutcome' = "ok"
    /\ brCount' = 0 /\ brOpen' = FALSE
    /\ UNCHANGED <<rtAttempt, rtReqAttempt, rtFails, rtLast>>

\* a breaker that opens one failure early
BreakerTripsEarly(count) == count + 1 >= BreakerFailures

\* CircuitBreaker.on_failure: `if self._count >= self.failures`
BreakerTrips(count) == count >= BreakerFailures

\* fn() raised the OpenAIError e: `except OpenAIError`, then on_failure and
\* the next attempt for a transient one, re-raise otherwise
ThunkRaises(e) ==
    IF Transient(e)
    THEN /\ rtLast' = e
         /\ rtLastOutcome' = "transient"
         /\ rtFails' = rtFails + 1
         /\ brCount' = brCount + 1
         /\ brOpen' = (brOpen \/ BreakerTrips(brCount + 1))
         /\ rtAttempt' = rtAttempt + 1
         /\ rtPc' = "loop"
         /\ UNCHANGED <<rtResult, rtReqAttempt>>
    ELSE /\ rtLast' = e
         /\ rtLastOutcome' = "fatal"
         /\ rtResult' = e
         /\ rtPc' = "done"
         /\ UNCHANGED <<rtAttempt, rtReqAttempt, rtFails, brCount, brOpen>>

\* the response is neither 2xx nor 429 nor 5xx
HardStatus(o) ==
    /\ o.kind = "response"
    /\ ~(200 <= o.status /\ o.status < 300)
    /\ o.status # 429 /\ ~(500 <= o.status /\ o.status < 600)

\* a _req that allows one attempt more
OneAttemptMore(attempt) == attempt > ClientMaxAttempts

\* attempt >= self.max_attempts
LastAttempt(attempt) == attempt >= ClientMaxAttempts

\* one pass of the loop of _req: session.request, then return, retry or raise
RtSend ==
    /\ rtPc = "req"
    /\ rtHttp' = rtHttp + 1
    /\ rtHttpAll' = rtHttpAll + 1
    /\ \E o \in HttpOutcomes :
         /\ rtHard' = (IF HardStatus(o) /\ ~rtHard.seen
                       THEN [seen |-> TRUE, http |-> rtHttpAll + 1, thunks |-> rtThunks,
                             fails |-> rtFails]
                       ELSE rtHard)
         /\ IF o.kind = "response" /\ o.status < 400
            THEN ThunkReturns
            ELSE IF ~ShouldRetry(o) \/ LastAttempt(rtReqAttempt)
            THEN ThunkRaises(OpenAIError(o))
            ELSE /\ rtReqAttempt' = rtReqAttempt + 1
                 /\ UNCHANGED <<rtPc, rtAttempt, rtFails, rtLast, rtLastOutcome, rtResult,
                                brCount, brOpen>>
    /\ UNCHANGED <<rtCalls, rtThunks>>
    /\ UNCHANGED notRt

\* a cooldown that also forgets the failures counted so far
BrCooldownResets ==
    /\ brOpen
    /\ brOpen' = FALSE
    /\ brCount' = 0
    /\ UNCHANGED <<rtPc, rtCalls, rtAttempt, rtReqAttempt, rtHttp, rtHttpAll, rtThunks, rtFails,
                   rtLast, rtLastOutcome, rtResult, rtHard>>
    /\ UNCHANGED notRt

\* time passes: the cooldown of the open breaker is over
BrCooldown ==
    /\ brOpen
    /\ brOpen' = FALSE
    /\ UNCHANGED <<rtPc, rtCalls, rtAttempt, rtReqAttempt, rtHttp, rtHttpAll, rtThunks, rtFails,
                   rtLast, rtLastOutcome, rtResult, rtHard, brCount>>
    /\ UNCHANGED notRt

RtStep == RtLoop \/ RtSend
RtNext == RtCall \/ RtStep \/ BrCooldown

-----------------------------------------------------------------------------
(* Cascade definitions: CascadeStep / CascadeDefinition to_dict, from_dict. *)
(* Strings are character sequences; None is the token "None" for the       *)
(* enumerated fields and a record with isNone for the others.               *)

NoneVal == [isNone |-> TRUE, str |-> <<>>, num |-> 0]
SomeStr(s) == [isNone |-> FALSE, str |-> s, num |-> 0]
SomeNum(n) == [isNone |-> FALSE, str |-> <<>>, num |-> n]

TextType == <<"t", "e", "x", "t">>
JsonType == <<"j", "s", "o", "n">>
UnnamedCascade == <<"U", "n", "n", "a", "m", "e", "d">>

\* a CascadeStep as the dataclass builds it with no argument
DefaultStep ==
    [title |-> <<>>, model |-> <<>>, temperature |-> NoneVal, instructions |-> <<>>,
     input_text |-> <<>>, input_content_json |-> "None", files_existing_ids |-> <<>>,
     files_local_paths |-> <<>>, previous_response_id_expr |-> NoneVal,
     output_type |-> TextType, output_schema_kind |-> "None",
     output_schema_custom |-> "None", expected_out_files |-> <<>>]

\* values of the fields of a step
StepStrings == {<<>>, <<"a">>}
StepTemperatures == {NoneVal, SomeNum(0), SomeNum(1)}
StepContents == {"None", "dict", "list", "str"}
StepLists == {<<>>, <<<<"f">>>>, <<<<" ">>>>}
StepPrevExprs == {NoneVal, SomeStr(<<>>), SomeStr(<<" ">>), SomeStr(<<"x">>), SomeStr(<<" ", "x">>)}
StepOutputTypes == {TextType, JsonType, <<"T", "e", "x", "t">>, <<"x", "m", "l">>, <<>>}
StepSchemaKinds == {"None", "manifest", "prompts", "custom", "other"}
StepSchemas == {"None", "dict"}

\* steps that differ from the default one in one group of fields
StepInputs ==
    {[DefaultStep EXCEPT !.title = t, !.model = m, !.instructions = i, !.input_text = x] :
        t \in StepStrings, m \in StepStrings, i \in StepStrings, x \in StepStrings}
    \cup {[DefaultStep EXCEPT !.temperature = t, !.input_content_json = c,
                              !.output_schema_custom = k] :
        t \in StepTemperatures, c \in StepContents, k \in StepSchemas}
    \cup {[DefaultStep EXCEPT !.files_existing_ids = a, !.files_local_paths = b,
                              !.expected_out_files = c] :
        a \in StepLists, b \in StepLists, c \in StepLists}
    \cup {[DefaultStep EXCEPT !.previous_response_id_expr = p, !.output_type = o,
                              !.output_schema_kind = k] :
        p \in StepPrevExprs, o \in StepOutputTypes, k \in StepSchemaKinds}

StepSeqs == UNION {[1..n -> StepInputs] : n \in 0..MaxDefSteps}

DefNames == {<<>>, <<"n">>}
DefDirs == {<<>>, <<"d">>, <<" ", "d">>}
DefTimes == {0, 5}
DefVersions == -1..MaxVersion
Clock == {8, 9}                 \* time.time()

DefInputs ==
    [name : DefNames, steps : StepSeqs, default_out_dir : DefDirs,
     created_at : DefTimes, updated_at : DefTimes, version : DefVersions]

DefaultDef ==
    [name |-> <<"n">>, steps |-> <<>>, default_out_dir |-> <<>>,
     created_at |-> 5, updated_at |-> 5, version |-> 1]

\* CascadeStep.to_dict
StepToDict(st) == st

\* [str(x) for x in (data.get(k) or []) if str(x).strip()]
NonBlank(xs) == SelectSeq(xs, LAMBDA x : Strip(x) # <<>>)

\* a from_dict that keeps the title of a step and nothing else
StepTitleOnly(data) == [DefaultStep EXCEPT !.title = data.title]

\* CascadeStep.from_dict
StepFromDict(data) ==
    LET lowered == Lower(IF data.output_type = <<>> THEN TextType ELSE data.output_type)
        prev == data.previous_response_id_expr
    IN  [title |-> data.title,
         model |-> data.model,
         temperature |-> data.temperature,
         instructions |-> data.instructions,
         input_text |-> data.input_text,
         input_content_json |->
             IF data.input_content_json \in {"None", "dict", "list"}
             THEN data.input_content_json ELSE "None",
         files_existing_ids |-> NonBlank(data.files_existing_ids),
         files_local_paths |-> NonBlank(data.files_local_paths),
         previous_response_id_expr |->
             IF prev.isNone \/ prev.str = <<>> THEN NoneVal ELSE SomeStr(Strip(prev.str)),
         output_type |-> IF lowered \in {TextType, JsonType} THEN lowered ELSE TextType,
         output_schema_kind |->
             IF data.output_schema_kind \in {"None", "manifest", "prompts", "custom"}
             THEN data.output_schema_kind ELSE "None",
         output_schema_custom |->
             IF data.output_schema_custom \in {"None", "dict"}
             THEN data.output_schema_custom ELSE "None",
         expected_out_files |-> NonBlank(data.expected_out_files)]

\* CascadeDefinition.to_dict, time.time() being now
DefToDict(d, now) ==
    [version |-> IF d.version = 0 THEN 1 ELSE d.version,
     name |-> d.name,
     created_at |-> IF d.created_at = 0 THEN now ELSE d.created_at,
     updated_at |-> IF d.updated_at = 0 THEN now ELSE d.updated_at,
     steps |-> [i \in 1..Len(d.steps) |-> StepToDict(d.steps[i])],
     default_out_dir |-> d.default_out_dir]

\* CascadeDefinition.from_dict of a dict that to_dict wrote
DefFromDict(data) ==
    [name |-> IF data.name = <<>> THEN UnnamedCascade ELSE data.name,
     steps |-> [i \in 1..Len(data.steps) |-> StepFromDict(data.steps[i])],
     default_out_dir |-> Strip(data.default_out_dir),
     created_at |-> data.created_at,
     updated_at |-> data.updated_at,
     version |-> IF data.version <= 0 THEN 1 ELSE data.version]

CdInit ==
    /\ cdPc = "made"
    /\ cdDef = DefaultDef
    /\ cdData = DefToDict(DefaultDef, 8)
    /\ cdBack = DefaultDef

\* d.to_dict()
CdToDict ==
    /\ cdPc = "made"
    /\ \E now \in Clock : cdData' = DefToDict(cdDef, now)
    /\ cdPc' = "dumped"
    /\ UNCHANGED <<cdDef, cdBack>>
    /\ UNCHANGED notCd

\* CascadeDefinition.from_dict(data)
CdFromDict ==
    /\ cdPc = "dumped"
    /\ cdBack' = DefFromDict(cdData)
    /\ cdPc' = "loaded"
    /\ UNCHANGED <<cdDef, cdData>>
    /\ UNCHANGED notCd

CdNext == CdToDict \/ CdFromDict

-----------------------------------------------------------------------------
(* Price table: PriceTable with its cache file. A table maps a model id to  *)
(* its row; of the optional prices of a row, batch_input_per_1k stands for  *)
(* all four, which the code treats alike. Prices are in cents per 100k.     *)
(* The table has a cache file of its own (cache_path is not ":memory:").    *)

PriceModels == {"gpt-4o-mini", "gpt-4o", "m1"}
InputPrices == {15, 500}
BatchPrices == {NoneVal, SomeNum(0)}
PriceRows == [input_per_1k : InputPrices, batch_input_per_1k : BatchPrices]

\* PriceTable.builtin_fallback().rows
BuiltinRows ==
    [m \in {"gpt-4o-mini", "gpt-4o"} |->
        [input_per_1k |-> IF m = "gpt-4o-mini" THEN 15 ELSE 500, batch_input_per_1k |-> NoneVal]]

EmptyRows == [m \in {} |-> 0]

\* the dicts of rows, keyed by the model of each row, a caller passes
RowDicts ==
    UNION {[ms -> PriceRows] : ms \in {x \in SUBSET PriceModels : Cardinality(x) <= MaxRows}}

\* x or 0.0
OrZero(x) == IF x.isNone THEN 0 ELSE x.num

\* PriceTable._rows_equal
RowsEqual(a, b) ==
    /\ a.input_per_1k = b.input_per_1k
    /\ OrZero(a.batch_input_per_1k) = OrZero(b.batch_input_per_1k)

\* PriceTable._merge_with_fallback
MergeWithFallback(held, rows) ==
    [m \in DOMAIN held \cup DOMAIN rows \cup DOMAIN BuiltinRows |->
        IF m \in DOMAIN rows THEN rows[m]
        ELSE IF m \in DOMAIN held THEN held[m]
        ELSE BuiltinRows[m]]

\* `changed` in update_from_rows
RowsChanged(held, merged) ==
    \/ DOMAIN held # DOMAIN merged
    \/ \E m \in DOMAIN merged : ~RowsEqual(held[m], merged[m])

\* what save_cache writes
CacheFile == [present |-> TRUE, rows |-> ptRows', last_updated |-> ptLastUpdated',
              verified |-> ptVerified']

PtInit ==
    /\ ptRows = EmptyRows
    /\ ptLastUpdated = 0
    /\ ptVerified = FALSE
    /\ ptFile = [present |-> FALSE, rows |-> EmptyRows, last_updated |-> 0, verified |-> FALSE]
    /\ ptStage = "none"
    /\ ptR = EmptyRows
    /\ ptPrev = EmptyRows

\* update_from_rows(rows, verified), save_cache included
UpdateFromRows(rows, verified) ==
    IF rows = EmptyRows
    THEN UNCHANGED <<ptRows, ptLastUpdated, ptVerified, ptFile, ptStage, ptR, ptPrev>>
    ELSE LET merged == MergeWithFallback(ptRows, rows)
             changed == RowsChanged(ptRows, merged)
         IN  /\ changed => ptLastUpdated < MaxStamp
             /\ ptRows' = (IF changed THEN merged ELSE MergeWithFallback(ptRows, ptRows))
             /\ ptLastUpdated' = (IF changed THEN ptLastUpdated + 1 ELSE ptLastUpdated)
             /\ ptVerified' = verified
             /\ ptFile' = CacheFile
             /\ ptStage' = "updated"
             /\ ptR' = rows
             /\ ptPrev' = ptRows

PtUpdate ==
    /\ \E rows \in RowDicts, verified \in BOOLEAN : UpdateFromRows(rows, verified)
    /\ UNCHANGED notPt

\* refresh_from_url: the URL is empty, the document has rows, has none, or
\* the download fails and the built-in rows are merged
PtRefresh ==
    /\ \/ /\ ptVerified' = FALSE
          /\ UNCHANGED <<ptRows, ptLastUpdated, ptFile, ptStage, ptR, ptPrev>>
       \/ \E rows \in RowDicts \ {EmptyRows} : UpdateFromRows(rows, TRUE)
       \/ UNCHANGED <<ptRows, ptLastUpdated, ptVerified, ptFile, ptStage, ptR, ptPrev>>
       \/ UpdateFromRows(BuiltinRows, FALSE)
    /\ UNCHANGED notPt

\* save_cache
PtSave ==
    /\ ptFile' = [present |-> TRUE, rows |-> ptRows, last_updated |-> ptLastUpdated,
                  verified |-> ptVerified]
    /\ ptStage' = (IF ptStage = "updated" THEN "saved" ELSE "none")
    /\ UNCHANGED <<ptRows, ptLastUpdated, ptVerified, ptR, ptPrev>>
    /\ UNCHANGED notPt

\* load_cache
PtLoad ==
    /\ IF ptFile.present
       THEN /\ ptRows' = ptFile.rows
            /\ ptLastUpdated' = ptFile.last_updated
            /\ ptVerified' = ptFile.verified
       ELSE UNCHANGED <<ptRows, ptLastUpdated, ptVerified>>
    /\ ptStage' = (IF ptStage = "saved" THEN "loaded" ELSE "none")
    /\ UNCHANGED <<ptFile, ptR, ptPrev>>
    /\ UNCHANGED notPt

PtNext == PtUpdate \/ PtRefresh \/ PtSave \/ PtLoad

-----------------------------------------------------------------------------
(* split_text, as pipeline.py and model_capabilities.py each define it.     *)

TextChars == {"a", "b"}
Texts == UNION {[1..n -> TextChars] : n \in 0..MaxTextLen}

\* a slice that loses its last character
SliceShort(text, i, k) ==
    SubSeq(text, i + 1, IF i + k - 1 < Len(text) THEN i + k - 1 ELSE Len(text))

\* text[i : i + k]
Slice(text, i, k) == SubSeq(text, i + 1, IF i + k < Len(text) THEN i + k ELSE Len(text))

\* the while loop of split_text in pipeline.py
RECURSIVE SplitLoop(_, _, _, _)
SplitLoop(text, k, i, out) ==
    IF i < Len(text) THEN SplitLoop(text, k, i + k, Append(out, Slice(text, i, k))) ELSE out

\* pipeline.split_text(text, max_chars)
SplitText(text, k) ==
    IF text = <<>> THEN <<<<>>>>
    ELSE IF k <= 0 THEN <<text>>
    ELSE SplitLoop(text, k, 0, <<>>)

\* the while loop of split_text in model_capabilities.py
RECURSIVE CapsSplitLoop(_, _, _, _)
CapsSplitLoop(text, k, i, out) ==
    IF i < Len(text) THEN CapsSplitLoop(text, k, i + k, Append(out, Slice(text, i, k))) ELSE out

\* model_capabilities.split_text(text, max_chars)
CapsSplitText(text, k) ==
    IF text = <<>> THEN <<<<>>>>
    ELSE IF k <= 0 THEN <<text>>
    ELSE CapsSplitLoop(text, k, 0, <<>>)

StInit ==
    /\ stText = <<>>
    /\ stK = 1
    /\ stOut = <<>>
    /\ stCapsOut = <<>>

\* chunks = split_text(prompt, max_chars) in the pipeline
StSplit ==
    /\ stOut = <<>>
    /\ stOut' = SplitText(stText, stK)
    /\ UNCHANGED <<stText, stK, stCapsOut>>
    /\ UNCHANGED notSt

\* chunks = split_text(text, max_chars) in the capability probe
StCapsSplit ==
    /\ stCapsOut = <<>>
    /\ stCapsOut' = CapsSplitText(stText, stK)
    /\ UNCHANGED <<stText, stK, stOut>>
    /\ UNCHANGED notSt

StNext == StSplit \/ StCapsSplit

-----------------------------------------------------------------------------
(* validate_paths(files): every entry of files is a dict; its "path" is a   *)
(* string, something else, or missing.                                      *)

ContractChars == {"/", ".", "a", "\\"}
ContractPaths == UNION {[1..n -> ContractChars] : n \in 0..MaxRelLen}
\* f.get("path", ""): a string, or a value that is no string
FileEntries == [kind : {"str"}, path : ContractPaths] \cup [kind : {"int"}, path : {<<>>}]
EntryLists == UNION {[1..n -> FileEntries] : n \in 0..MaxEntries}

\* a check that finds no ".." anywhere
NoDotDotCheck(p) == FALSE

\* ".." in p.split("/")
HasDotDot(p) == \E k \in 1..Len(Split(p, "/")) : Split(p, "/")[k] = DotDot

\* the loop of validate_paths from entry i on, with the paths seen so far
RECURSIVE ValidateFrom(_, _, _)
ValidateFrom(files, i, seen) ==
    IF i > Len(files) THEN "ok"
    ELSE LET p == files[i].path
         IN  IF files[i].kind # "str" \/ p = <<>> THEN "ContractError"
             ELSE IF p[1] = "/" \/ p[1] = "\\" THEN "ContractError"
             ELSE IF HasDotDot(p) THEN "ContractError"
             ELSE IF \E k \in 1..Len(p) : p[k] = "\\" THEN "ContractError"
             ELSE IF p \in seen THEN "ContractError"
             ELSE ValidateFrom(files, i + 1, seen \cup {p})

\* validate_paths(files)
ValidatePathsOf(files) == ValidateFrom(files, 1, {})

VpInit ==
    /\ vpFiles = <<>>
    /\ vpResult = "none"

\* validate_paths(files) is called
VpValidate ==
    /\ vpResult = "none"
    /\ vpResult' = ValidatePathsOf(vpFiles)
    /\ UNCHANGED vpFiles
    /\ UNCHANGED notVp

VpNext == VpValidate

-----------------------------------------------------------------------------
(* GENERATE / MODIFY: plan, structure and the per-file chunk loop            *)
(* (RunWorker._run_a_generate, _run_b_modify, _gen_file_chunks), with the    *)
(* requests, the response ids they chain from and the error of the run       *)

GnModes == {"GENERATE", "MODIFY"}

\* values of the `contract` key of a response
GnContracts ==
    {"A1_PLAN", "A2_STRUCTURE", "A3_FILE", "B1_PLAN", "B2_STRUCTURE", "B3_FILE",
     "previous_response_id"}

\* response ids: the one the run started from, the plan's, the structure's,
\* and one per chunk response
BaseId == <<0>>
PlanId == <<1>>
StructureId == <<2>>
ChunkId(file, pass, attempt) == <<3, file, pass, attempt>>
NoRespId == <<>>

\* paths of the structure response; "s" is in cfg.skip_paths, "" is skipped
GnPaths == {"f", "g", "s"}
SkipPaths == {"s"}
RawFileLists == UNION {[1..n -> GnPaths] : n \in 0..MaxGenFiles}

\* the filter of files_raw / touched_raw: keeps the order of the response
KeptFiles(raw) == SelectSeq(raw, LAMBDA p : p # "" /\ p \notin SkipPaths)

\* what with_retry(create_response) gives: a response, or the error it raises
StageResponses ==
    [kind : {"response"}, shape : {"object", "text"}, contract : GnContracts]
ChunkResponses ==
    [kind : {"response"}, shape : {"object", "text"}, contract : GnContracts,
     more : BOOLEAN, next : 0..(ChunkGuard + 1)]
ApiErrorWords == {"previous_response_id", "Previous_Response_Id", "model_not_found"}
ApiErrors == [kind : {"error"}, word : ApiErrorWords]

\* str.lower() on the words of an error text
GnLower(w) == IF w = "Previous_Response_Id" THEN "previous_response_id" ELSE w

\* "previous_response_id" in str(e).lower(), a text being its words
TextMentionsPrevId(text) ==
    \E i \in 1..Len(text) : GnLower(text[i]) = "previous_response_id"

NoExc == [type |-> "none", text |-> <<>>]
ApiError(o) == [type |-> "OpenAIError", text |-> <<"POST", "/responses", "400:", o.word>>]
StopRequested == [type |-> "RuntimeError", text |-> <<"STOP_REQUESTED">>]
LoopGuard == [type |-> "ContractError", text |-> <<"Chunk", "loop", "guard">>]
NotJson == [type |-> "ContractError", text |-> <<"Response", "is", "not", "valid", "JSON">>]
StageMismatch(contract) == [type |-> "ContractError", text |-> <<contract, "contract", "mismatch">>]
FileMismatch(contract, got) == [type |-> "ContractError", text |-> <<contract, "mismatch", "(got", got, ")">>]

\* the words of PrevIdMessage
PrevIdText == <<"Response", "ID", "je", "neplatne", "nebo", "expirovane">>

\* parse_json_strict and the contract test of a plan or structure response:
\* the exception raised, NoExc when the response is accepted
StageCheck(o, contract) ==
    IF o.shape # "object" THEN NotJson
    ELSE IF o.contract # contract THEN StageMismatch(contract)
    ELSE NoExc

\* the same for a chunk response, inside the try of _gen_file_chunks
ChunkCheck(o, contract) ==
    IF o.shape # "object" THEN NotJson
    ELSE IF o.contract # contract THEN FileMismatch(contract, o.contract)
    ELSE NoExc

\* a call that hands control back with its request still open
NotAwaited(inFlight) == inFlight

\* with_retry(lambda: client.create_response(payload), ...) is a blocking
\* call: when it is over, its request is no longer in flight
Answered(inFlight) == inFlight - 1

\* a chunk request that chains from the last response received
ChainFromLast(resp2, last) == last

\* prev_id=resp2_id: the id every chunk request of every file carries
ChunkPrevId(resp2, last) == resp2

\* `if attempt >= max_attempts`: give up on the chunk
GivesUp(attempt) == attempt >= MaxAttempts

\* "".join(parts)
RECURSIVE JoinParts(_)
JoinParts(parts) ==
    IF parts = <<>> THEN <<>> ELSE Head(parts) \o JoinParts(Tail(parts))

\* `if chunk_index > 5000`, for the index the loop goes on with
GuardTrips(chunk, next) == next > ChunkGuard

\* int(ch.get("next_chunk_index") or (chunk_index + 1))
NextIndex(chunk, next) == IF next # 0 THEN next ELSE chunk + 1

\* a stage that asks again after a response it does not accept
StageAsksAgain(sent) == sent < 2

\* plan and structure: the exception is raised, the stage is not repeated
StageRetries(sent) == FALSE

ContentOfChunk == <<"x">>
NoRequest == [stage |-> "none", file |-> 0, chunk |-> 0, prev |-> NoRespId]

GnInit ==
    /\ gnPc = "idle"
    /\ gnMode = "GENERATE"
    /\ gnStop = FALSE
    /\ gnReq = NoRequest
    /\ gnInFlight = 0
    /\ gnSent = [plan |-> 0, structure |-> 0]
    /\ gnResp1 = NoRespId
    /\ gnResp2 = NoRespId
    /\ gnLastId = NoRespId
    /\ gnFiles = <<>>
    /\ gnFileIdx = 0
    /\ gnChunk = 0
    /\ gnPass = 0
    /\ gnAttempt = 0
    /\ gnBad = 0
    /\ gnParts = <<>>
    /\ gnOut = <<>>
    /\ gnWritten = <<>>
    /\ gnEvents = <<>>
    /\ gnPrevIdErr = FALSE
    /\ gnExc = NoExc
    /\ gnMsg = <<>>

\* RunWorker.run, `except Exception as e`: the run ends with the message
\* (the one kept in _last_prev_id_error when set, str(e) otherwise)
GnRaise(e, prevIdErr) ==
    /\ gnExc' = e
    /\ gnPrevIdErr' = prevIdErr
    /\ gnPc' = (IF e = StopRequested THEN "stopped" ELSE "failed")
    /\ gnMsg' = (IF prevIdErr THEN PrevIdText ELSE e.text)

\* the file is finished with these parts: out_files.append, next file
GnFileDone(parts) ==
    /\ gnOut' = Append(gnOut, [path |-> gnFiles[gnFileIdx], content |-> JoinParts(parts)])
    /\ gnParts' = parts
    /\ gnPc' = "file"
    /\ UNCHANGED <<gnExc, gnPrevIdErr, gnMsg>>

\* the run starts: the A1 / B1 request goes out, chained from base_prev_id
GnBegin ==
    /\ gnPc = "idle"
    /\ \E mode \in GnModes : gnMode' = mode
    /\ gnReq' = [stage |-> "plan", file |-> 0, chunk |-> 0, prev |-> BaseId]
    /\ gnInFlight' = gnInFlight + 1
    /\ gnSent' = [gnSent EXCEPT !.plan = @ + 1]
    /\ gnPc' = "plan"
    /\ UNCHANGED <<gnStop, gnResp1, gnResp2, gnLastId, gnFiles, gnFileIdx, gnChunk, gnPass,
                   gnAttempt, gnBad, gnParts, gnOut, gnWritten, gnEvents, gnPrevIdErr, gnExc,
                   gnMsg>>
    /\ UNCHANGED notGn

\* the A1 / B1 call is over: error, or check of the plan and the A2 / B2
\* request chained from the plan's response id
GnPlanResponse ==
    /\ gnPc = "plan"
    /\ \E o \in StageResponses \cup ApiErrors :
         IF o.kind = "error"
         THEN /\ GnRaise(ApiError(o), gnPrevIdErr)
              /\ gnInFlight' = Answered(gnInFlight)
              /\ UNCHANGED <<gnReq, gnSent, gnResp1, gnLastId>>
         ELSE LET e == StageCheck(o, PlanContract(gnMode)) IN
              IF e # NoExc
              THEN IF StageRetries(gnSent.plan)
                   THEN /\ gnSent' = [gnSent EXCEPT !.plan = @ + 1]
                        /\ gnLastId' = PlanId
                        /\ UNCHANGED <<gnPc, gnReq, gnInFlight, gnResp1, gnExc, gnPrevIdErr,
                                       gnMsg>>
                   ELSE /\ GnRaise(e, gnPrevIdErr)
                        /\ gnInFlight' = Answered(gnInFlight)
                        /\ gnLastId' = PlanId
                        /\ UNCHANGED <<gnReq, gnSent, gnResp1>>
              ELSE /\ gnResp1' = PlanId
                   /\ gnLastId' = PlanId
                   /\ gnReq' = [stage |-> "structure", file |-> 0, chunk |-> 0, prev |-> PlanId]
                   /\ gnSent' = [gnSent EXCEPT !.structure = @ + 1]
                   /\ gnPc' = "structure"
                   /\ UNCHANGED <<gnInFlight, gnExc, gnPrevIdErr, gnMsg>>
    /\ UNCHANGED <<gnMode, gnStop, gnResp2, gnFiles, gnFileIdx, gnChunk, gnPass, gnAttempt, gnBad,
                   gnParts, gnOut, gnWritten, gnEvents>>
    /\ UNCHANGED notGn

\* the A2 / B2 call is over: error, or check of the structure and the filter
\* of its files (GENERATE checks the stop flag for every listed file)
GnStructureResponse ==
    /\ gnPc = "structure"
    /\ \E o \in StageResponses \cup ApiErrors :
         IF o.kind = "error"
         THEN /\ GnRaise(ApiError(o), gnPrevIdErr)
              /\ gnInFlight' = Answered(gnInFlight)
              /\ UNCHANGED <<gnReq, gnSent, gnResp2, gnLastId, gnFiles>>
         ELSE LET e == StageCheck(o, StructureContract(gnMode)) IN
              IF e # NoExc
              THEN IF StageRetries(gnSent.structure)
                   THEN /\ gnSent' = [gnSent EXCEPT !.structure = @ + 1]
                        /\ gnLastId' = StructureId
                        /\ UNCHANGED <<gnPc, gnReq, gnInFlight, gnResp2, gnFiles, gnExc,
                                       gnPrevIdErr, gnMsg>>
                   ELSE /\ GnRaise(e, gnPrevIdErr)
                        /\ gnInFlight' = Answered(gnInFlight)
                        /\ gnLastId' = StructureId
                        /\ UNCHANGED <<gnReq, gnSent, gnResp2, gnFiles>>
              ELSE \E raw \in RawFileLists :
                   /\ gnResp2' = StructureId
                   /\ gnLastId' = StructureId
                   /\ gnInFlight' = Answered(gnInFlight)
                   /\ IF gnMode = "GENERATE" /\ raw # <<>> /\ gnStop
                      THEN /\ GnRaise(StopRequested, gnPrevIdErr)
                           /\ UNCHANGED gnFiles
                      ELSE /\ gnFiles' = KeptFiles(raw)
                           /\ gnPc' = "file"
                           /\ UNCHANGED <<gnExc, gnPrevIdErr, gnMsg>>
                   /\ UNCHANGED <<gnReq, gnSent>>
    /\ UNCHANGED <<gnMode, gnStop, gnResp1, gnFileIdx, gnChunk, gnPass, gnAttempt, gnBad, gnParts,
                   gnOut, gnWritten, gnEvents>>
    /\ UNCHANGED notGn

\* top of `for idx, f in enumerate(files, start=1)`: the stop check and the
\* next file, or _save_out_files when every file has its content
GnNextFile ==
    /\ gnPc = "file"
    /\ IF gnFileIdx = Len(gnFiles)
       THEN /\ gnPc' = "save"
            /\ UNCHANGED <<gnFileIdx, gnChunk, gnPass, gnAttempt, gnBad, gnParts, gnExc,
                           gnPrevIdErr, gnMsg>>
       ELSE IF gnStop
       THEN /\ GnRaise(StopRequested, gnPrevIdErr)
            /\ UNCHANGED <<gnFileIdx, gnChunk, gnPass, gnAttempt, gnBad, gnParts>>
       ELSE /\ gnFileIdx' = gnFileIdx + 1
            /\ gnChunk' = 0
            /\ gnPass' = 0
            /\ gnAttempt' = 0
            /\ gnBad' = 0
            /\ gnParts' = <<>>
            /\ gnPc' = "while"
            /\ UNCHANGED <<gnExc, gnPrevIdErr, gnMsg>>
    /\ UNCHANGED <<gnMode, gnStop, gnReq, gnInFlight, gnSent, gnResp1, gnResp2, gnLastId, gnFiles,
                   gnOut, gnWritten, gnEvents>>
    /\ UNCHANGED notGn

\* top of `while True` of _gen_file_chunks: the stop check, the payload for
\* chunk_index with prev_id, and the first create_response of the chunk
GnChunkRequest ==
    /\ gnPc = "while"
    /\ IF gnStop
       THEN /\ GnRaise(StopRequested, gnPrevIdErr)
            /\ UNCHANGED <<gnReq, gnInFlight, gnPass, gnAttempt>>
       ELSE /\ gnReq' = [stage |-> "file", file |-> gnFileIdx, chunk |-> gnChunk,
                         prev |-> ChunkPrevId(gnResp2, gnLastId)]
            /\ gnInFlight' = gnInFlight + 1
            /\ gnPass' = gnPass + 1
            /\ gnAttempt' = 0
            /\ gnPc' = "wait"
            /\ UNCHANGED <<gnExc, gnPrevIdErr, gnMsg>>
    /\ UNCHANGED <<gnMode, gnStop, gnSent, gnResp1, gnResp2, gnLastId, gnFiles, gnFileIdx, gnChunk,
                   gnBad, gnParts, gnOut, gnWritten, gnEvents>>
    /\ UNCHANGED notGn

\* the response o of a chunk call did not pass the check e
GnChunkRejected(o, e) ==
    /\ gnBad' = gnBad + 1
    /\ gnAttempt' = gnAttempt + 1
    /\ IF TextMentionsPrevId(e.text)
       THEN /\ GnRaise(e, TRUE)
            /\ gnInFlight' = Answered(gnInFlight)
            /\ UNCHANGED <<gnChunk, gnParts, gnOut, gnEvents>>
       ELSE IF GivesUp(gnAttempt + 1)
       THEN /\ gnEvents' = Append(gnEvents, [event |-> "contract.mismatch", file |-> gnFileIdx,
                                             chunk |-> gnChunk])
            /\ GnFileDone(Append(gnParts, <<>>))
            /\ gnInFlight' = Answered(gnInFlight)
            /\ UNCHANGED <<gnChunk>>
       ELSE \* `continue`: the same payload is sent again
            /\ UNCHANGED <<gnPc, gnInFlight, gnChunk, gnParts, gnOut, gnEvents, gnExc,
                           gnPrevIdErr, gnMsg>>

\* the response o of a chunk call passed the check
GnChunkAccepted(o) ==
    /\ gnInFlight' = Answered(gnInFlight)
    /\ UNCHANGED <<gnAttempt, gnEvents>>
    /\ IF ~o.more
       THEN /\ GnFileDone(Append(gnParts, ContentOfChunk))
            /\ UNCHANGED <<gnChunk, gnBad>>
       ELSE LET next == NextIndex(gnChunk, o.next) IN
            /\ gnParts' = Append(gnParts, ContentOfChunk)
            /\ gnChunk' = next
            /\ gnBad' = (IF next = gnChunk THEN gnBad ELSE 0)
            /\ UNCHANGED gnOut
            /\ IF GuardTrips(gnChunk, next)
               THEN GnRaise(LoopGuard, gnPrevIdErr)
               ELSE /\ gnPc' = "while"
                    /\ UNCHANGED <<gnExc, gnPrevIdErr, gnMsg>>

\* one with_retry(create_response) of the chunk is over: it raised, or its
\* response is checked
GnChunkResponse ==
    /\ gnPc = "wait"
    /\ \E o \in ChunkResponses \cup ApiErrors :
         IF o.kind = "error"
         THEN /\ GnRaise(ApiError(o), gnPrevIdErr)
              /\ gnInFlight' = Answered(gnInFlight)
              /\ UNCHANGED <<gnLastId, gnChunk, gnAttempt, gnBad, gnParts, gnOut, gnEvents>>
         ELSE /\ o.more => gnPass < MaxPasses
              /\ gnLastId' = ChunkId(gnFileIdx, gnPass, gnAttempt + 1)
              /\ LET e == ChunkCheck(o, FileContract(gnMode)) IN
                 IF e # NoExc THEN GnChunkRejected(o, e) ELSE GnChunkAccepted(o)
    /\ UNCHANGED <<gnMode, gnStop, gnReq, gnSent, gnResp1, gnResp2, gnFiles, gnFileIdx, gnPass,
                   gnWritten>>
    /\ UNCHANGED notGn

\* _save_out_files, one file of out_files per step, then the end of the run
GnSaveFile ==
    /\ gnPc = "save"
    /\ IF Len(gnWritten) = Len(gnOut)
       THEN /\ gnPc' = "done"
            /\ UNCHANGED <<gnWritten, gnExc, gnPrevIdErr, gnMsg>>
       ELSE IF gnStop
       THEN /\ GnRaise(StopRequested, gnPrevIdErr)
            /\ UNCHANGED gnWritten
       ELSE /\ gnWritten' = Append(gnWritten, gnOut[Len(gnWritten) + 1])
            /\ UNCHANGED <<gnPc, gnExc, gnPrevIdErr, gnMsg>>
    /\ UNCHANGED <<gnMode, gnStop, gnReq, gnInFlight, gnSent, gnResp1, gnResp2, gnLastId, gnFiles,
                   gnFileIdx, gnChunk, gnPass, gnAttempt, gnBad, gnParts, gnOut, gnEvents>>
    /\ UNCHANGED notGn

\* request_stop() from the UI thread
GnRequestStop ==
    /\ gnPc \notin {"idle", "done", "failed", "stopped"}
    /\ ~gnStop
    /\ gnStop' = TRUE
    /\ UNCHANGED <<gnPc, gnMode, gnReq, gnInFlight, gnSent, gnResp1, gnResp2, gnLastId, gnFiles,
                   gnFileIdx, gnChunk, gnPass, gnAttempt, gnBad, gnParts, gnOut, gnWritten,
                   gnEvents, gnPrevIdErr, gnExc, gnMsg>>
    /\ UNCHANGED notGn

GnNext ==
    \/ GnBegin \/ GnPlanResponse \/ GnStructureResponse \/ GnNextFile \/ GnChunkRequest
    \/ GnChunkResponse \/ GnSaveFile \/ GnRequestStop

-----------------------------------------------------------------------------
(* RunLogger.update_state / CascadeLogger.update_state on run_state.json     *)
(* A JSON object is the set of its leaf paths: values of the logger model    *)
(* whose containers are all dicts, no path being a prefix of another.        *)

StateKeys == {<<"a">>, <<"b">>, <<"t", "o", "k", "e", "n">>}
StateLeaves == {<<"1">>, <<"2">>}
StatePaths ==
    [wraps : UNION {[1..n -> [t : {"dict"}, k : StateKeys]] : n \in 1..MaxStateDepth},
     leaf : StateLeaves]

\* p is a prefix of q
IsPrefixOf(p, q) == Len(p) <= Len(q) /\ SubSeq(q, 1, Len(p)) = p

\* the set of leaf paths is a JSON object
IsJsonObject(paths) ==
    \A p, q \in paths : p # q => (~IsPrefixOf(p.wraps, q.wraps) /\ ~IsPrefixOf(q.wraps, p.wraps))

\* patches of one or two leaves
Patches == {ps \in {{p, q} : p, q \in StatePaths} : IsJsonObject(ps)}

\* _redact on an object: leaf path by leaf path
RedactObject(paths) == {JsonDump(Redact(p)) : p \in paths}

\* the state the logger writes at construction, {"status": "created", ...}
CreatedState == {[wraps |-> <<[t |-> "dict", k |-> <<"s">>]>>, leaf |-> <<"c">>]}
CorruptState == {[wraps |-> <<[t |-> "dict", k |-> <<"s">>]>>, leaf |-> <<"x">>]}

\* dict.update: every top-level key of the patch replaces the entry of the
\* state under that key as a whole
DictUpdate(state, patch) ==
    LET top == {p.wraps[1].k : p \in patch}
    IN  {s \in state : s.wraps[1].k \notin top} \cup patch

\* update_state(patch): state.update(self._redact(patch)), then _write_state
UpdateState(state, patch, readable) ==
    LET read == IF readable THEN state ELSE CorruptState
    IN  RedactObject(DictUpdate(read, RedactObject(patch)))

UsInit ==
    /\ usState = CreatedState
    /\ usPrev = CreatedState
    /\ usPatch = {}
    /\ usReadable = TRUE
    /\ usWrites = 0

UsUpdateState ==
    /\ usWrites < MaxStateWrites
    /\ \E patch \in Patches, readable \in BOOLEAN :
         /\ usPatch' = patch
         /\ usReadable' = readable
         /\ usState' = UpdateState(usState, patch, readable)
    /\ usPrev' = usState
    /\ usWrites' = usWrites + 1
    /\ UNCHANGED notUs

UsNext == UsUpdateState

-----------------------------------------------------------------------------
(* MainWindow.on_stop / _kill_worker_if_running against the end of           *)
(* RunWorker.run: two threads that both call update_state on run_state.json  *)

TerminalStatuses == {"completed", "failed", "stopped"}

\* the key each status patch carries beside "status"
MarkOf(status) ==
    CASE status = "completed" -> "completed_at"
      [] status = "failed" -> "failed_at"
      [] status = "stopped" -> "stopped_at"
      [] OTHER -> "force_killed_at"

NoCopy == [status |-> "none", marks |-> {}]

\* state.update(patch) for a status patch
StatusUpdate(state, status) ==
    [status |-> status, marks |-> state.marks \cup {MarkOf(status)}]

SkInit ==
    /\ skWorker = "running"
    /\ skUi = "idle"
    /\ skStop = FALSE
    /\ skTermReq = FALSE
    /\ skFile = [status |-> "running", marks |-> {}]
    /\ skWorkerCopy = NoCopy
    /\ skUiCopy = NoCopy
    /\ skWrote = "none"
    /\ skPatches = {}

\* RunWorker.run reaches one of its update_state calls: completed, failed,
\* or stopped when a _check_stop saw the flag; update_state reads the file
SkWorkerRead ==
    /\ skWorker = "running"
    /\ \E status \in TerminalStatuses :
         /\ status = "stopped" => skStop
         /\ skWorkerCopy' = StatusUpdate(skFile, status)
    /\ skWorker' = "read"
    /\ UNCHANGED <<skUi, skStop, skTermReq, skFile, skUiCopy, skWrote, skPatches>>
    /\ UNCHANGED notSk

\* the worker's update_state writes the file (os.replace)
SkWorkerWrite ==
    /\ skWorker = "read"
    /\ skFile' = skWorkerCopy
    /\ skWrote' = skWorkerCopy.status
    /\ skPatches' = skPatches \cup {MarkOf(skWorkerCopy.status)}
    /\ skWorker' = "post"
    /\ UNCHANGED <<skUi, skStop, skTermReq, skWorkerCopy, skUiCopy>>
    /\ UNCHANGED notSk

\* after the status: the fallback receipt, the signal, run() returns
SkWorkerEnd ==
    /\ skWorker = "post"
    /\ skWorker' = "ended"
    /\ UNCHANGED <<skUi, skStop, skTermReq, skFile, skWorkerCopy, skUiCopy, skWrote, skPatches>>
    /\ UNCHANGED notSk

\* the terminate() takes effect: the thread is gone wherever it was
SkWorkerKilled ==
    /\ skTermReq
    /\ skWorker \in {"running", "read", "post"}
    /\ skWorker' = "killed"
    /\ UNCHANGED <<skUi, skStop, skTermReq, skFile, skWorkerCopy, skUiCopy, skWrote, skPatches>>
    /\ UNCHANGED notSk

\* on_stop: request_stop(), QTimer.singleShot(1500, _kill_worker_if_running)
SkOnStop ==
    /\ skUi = "idle"
    /\ skStop' = TRUE
    /\ skUi' = "timer"
    /\ UNCHANGED <<skWorker, skTermReq, skFile, skWorkerCopy, skUiCopy, skWrote, skPatches>>
    /\ UNCHANGED notSk

\* _kill_worker_if_running starts: `if not (worker and worker.isRunning())`
SkTimerFires ==
    /\ skUi = "timer"
    /\ skUi' = (IF skWorker \in {"ended", "killed"} THEN "done" ELSE "wait1")
    /\ UNCHANGED <<skWorker, skStop, skTermReq, skFile, skWorkerCopy, skUiCopy, skWrote, skPatches>>
    /\ UNCHANGED notSk

\* worker.wait(2000): true when the thread finished, else after 2 s
\* worker.terminate()
SkGraceOver ==
    /\ skUi = "wait1"
    /\ IF skWorker = "ended"
       THEN skUi' = "done" /\ UNCHANGED skTermReq
       ELSE skUi' = "wait2" /\ skTermReq' = TRUE
    /\ UNCHANGED <<skWorker, skStop, skFile, skWorkerCopy, skUiCopy, skWrote, skPatches>>
    /\ UNCHANGED notSk

\* worker.wait(2000) after terminate() is over (the thread is gone, or the
\* 2 s passed); run_logger.update_state({"status": "force_killed", ...})
\* reads the file
SkUiRead ==
    /\ skUi = "wait2"
    /\ skUiCopy' = StatusUpdate(skFile, "force_killed")
    /\ skUi' = "read"
    /\ UNCHANGED <<skWorker, skStop, skTermReq, skFile, skWorkerCopy, skWrote, skPatches>>
    /\ UNCHANGED notSk

\* the UI's update_state writes the file; _dispose_worker
SkUiWrite ==
    /\ skUi = "read"
    /\ skFile' = skUiCopy
    /\ skPatches' = skPatches \cup {"force_killed_at"}
    /\ skUi' = "done"
    /\ UNCHANGED <<skWorker, skStop, skTermReq, skWorkerCopy, skUiCopy, skWrote>>
    /\ UNCHANGED notSk

SkNext ==
    \/ SkWorkerRead \/ SkWorkerWrite \/ SkWorkerEnd \/ SkWorkerKilled
    \/ SkOnStop \/ SkTimerFires \/ SkGraceOver \/ SkUiRead \/ SkUiWrite

-----------------------------------------------------------------------------
(* RunLogger.save_json names of response files and                           *)
(* PricingAuditor._infer_label / _infer_mode_flow / _build_receipt           *)

LowerLetters ==
    <<"a", "b", "c", "d", "e", "f", "g", "h", "i", "j", "k", "l", "m",
      "n", "o", "p", "q", "r", "s", "t", "u", "v", "w", "x", "y", "z">>
UpperLetters ==
    <<"A", "B", "C", "D", "E", "F", "G", "H", "I", "J", "K", "L", "M",
      "N", "O", "P", "Q", "R", "S", "T", "U", "V", "W", "X", "Y", "Z">>
Digits == {"0", "1", "2", "3", "4", "5", "6", "7", "8", "9"}

\* str.upper(), character by character
UpperChar(c) ==
    IF \E i \in 1..Len(LowerLetters) : LowerLetters[i] = c
    THEN UpperLetters[CHOOSE i \in 1..Len(LowerLetters) : LowerLetters[i] = c]
    ELSE c
Upper(s) == [i \in 1..Len(s) |-> UpperChar(s[i])]

\* c.isalnum() or c in "._-"
IsSafeChar(c) ==
    \/ \E i \in 1..Len(LowerLetters) : LowerLetters[i] = c \/ UpperLetters[i] = c
    \/ c \in Digits
    \/ c \in {".", "_", "-"}

\* "".join(c for c in name if c.isalnum() or c in "._-")
SafeChars(s) == SelectSeq(s, IsSafeChar)

Us0 == <<"_">>
TsCode == <<"0", "1">>        \* ts_code(): digits only
RunIdOf(rnd) == <<"R", "U", "N">> \o Us0 \o TsCode \o Us0 \o rnd

LbProjects == {<<>>, <<"p">>, <<"d", "a", "t", "a", "3">>}
LbRnds == {<<"0", "0", "0", "0">>, <<"7", "Q", "A", "9">>}
LbIds == {<<"r", "e", "s", "p", "_", "0">>, <<"r", "e", "s", "p", "_", "c">>,
          <<"r", "e", "s", "p", "_", "0", "a", "1">>}
LbStages == {"A0", "A1", "A2", "A3", "B1", "B2", "B3", "QA", "QFILE", "C", "CASCADE"}

\* the characters of the two-letter stage names
StageChars(stage) ==
    CASE stage = "A1" -> <<"A", "1">> [] stage = "A2" -> <<"A", "2">>
      [] stage = "A3" -> <<"A", "3">> [] stage = "B1" -> <<"B", "1">>
      [] stage = "B2" -> <<"B", "2">> [] stage = "B3" -> <<"B", "3">>
      [] OTHER -> <<"Q", "A">>

ResponseWord == <<"r", "e", "s", "p", "o", "n", "s", "e">>

\* the `name` argument of save_json("responses", name, resp) of each stage
ResponseName(stage, id) ==
    CASE stage = "A0" ->
            <<"A", "0", "_", "i", "n", "g", "e", "s", "t", "_", "r", "e", "s", "p", "_">>
                \o id \o Us0 \o <<"0">> \o Us0 \o TsCode
      [] stage \in {"A3", "B3"} ->
            StageChars(stage) \o <<"_", "F", "I", "L", "E", "_">>
                \o id \o Us0 \o <<"f">> \o Us0 \o <<"0">> \o Us0 \o TsCode
      [] stage = "QFILE" ->
            <<"Q", "F", "I", "L", "E", "_">> \o ResponseWord \o Us0 \o id \o Us0 \o TsCode
      [] stage = "C" ->
            <<"C", "_", "b", "a", "t", "c", "h", "_", "c", "r", "e", "a", "t", "e", "d", "_">>
                \o id \o Us0 \o TsCode
      [] stage = "CASCADE" ->
            <<"c", "a", "s", "c", "a", "d", "e", "_", "s", "t", "e", "p", "_", "0", "1">>
      [] OTHER ->
            StageChars(stage) \o Us0 \o ResponseWord \o Us0 \o id
                \o Us0 \o TsCode

\* save_json: the file name under responses/
SaveJsonName(project, runId, name) ==
    LET safe == SafeChars(name)
        prefix == SafeChars(project)
        safe2 == IF prefix # <<>> THEN prefix \o Us0 \o runId \o Us0 \o safe
                 ELSE runId \o Us0 \o safe
    IN  safe2 \o <<".", "j", "s", "o", "n">>

\* the tokens of _infer_label, in the order they are tried
LabelTokens ==
    <<"A3", "A2", "A1", "B3", "B2", "B1", "QA", "QFILE", "C_BATCH", "C">>
TokenChars(token) ==
    CASE token = "A3" -> <<"A", "3">> [] token = "A2" -> <<"A", "2">>
      [] token = "A1" -> <<"A", "1">> [] token = "B3" -> <<"B", "3">>
      [] token = "B2" -> <<"B", "2">> [] token = "B1" -> <<"B", "1">>
      [] token = "QA" -> <<"Q", "A">> [] token = "QFILE" -> <<"Q", "F", "I", "L", "E">>
      [] token = "C_BATCH" -> <<"C", "_", "B", "A", "T", "C", "H">>
      [] OTHER -> <<"C">>

\* _infer_label(name)
InferLabel(name) ==
    LET upper == Upper(name)
        hits == {i \in 1..Len(LabelTokens) : Contains(TokenChars(LabelTokens[i]), upper)}
    IN  IF hits # {} THEN LabelTokens[CHOOSE i \in hits : \A j \in hits : i <= j]
        ELSE IF Contains(<<"B", "A", "T", "C", "H">>, upper) THEN "C"
        ELSE "UNKNOWN"

\* _infer_mode_flow(label)[0]
InferMode(label) ==
    CASE label \in {"A1", "A2", "A3"} -> "GENERATE"
      [] label \in {"B1", "B2", "B3"} -> "MODIFY"
      [] label = "QA" -> "QA"
      [] label = "QFILE" -> "QFILE"
      [] label \in {"C_BATCH", "C"} -> "C"
      [] OTHER -> "UNKNOWN"

LbInit ==
    /\ lbProject = <<>>
    /\ lbRnd = <<>>
    /\ lbStage = "A1"
    /\ lbRespId = <<>>
    /\ lbName = <<>>
    /\ lbLabel = "none"
    /\ lbBatch = FALSE

\* the stage saves its response: log.save_json("responses", name, resp)
LbSaveJson ==
    /\ lbName = <<>>
    /\ lbName' = SaveJsonName(lbProject, RunIdOf(lbRnd), ResponseName(lbStage, lbRespId))
    /\ UNCHANGED <<lbProject, lbRnd, lbStage, lbRespId, lbLabel, lbBatch>>
    /\ UNCHANGED notLb

\* the audit reaches the file: label, mode, compute_cost(is_batch=mode == "C")
LbAudit ==
    /\ lbName # <<>>
    /\ lbLabel = "none"
    /\ lbLabel' = InferLabel(lbName)
    /\ lbBatch' = (InferMode(InferLabel(lbName)) = "C")
    /\ UNCHANGED <<lbProject, lbRnd, lbStage, lbRespId, lbName>>
    /\ UNCHANGED notLb

LbNext == LbSaveJson \/ LbAudit

-----------------------------------------------------------------------------
(* RunWorker._ingest_prompt_if_needed and the request that follows it        *)

IgModes == {"GENERATE", "MODIFY", "QA"}
IgConfigs ==
    [mode : IgModes, batch : BOOLEAN, len : 0..MaxPromptLen, responseId : {NoRespId, BaseId}]

\* the prompt, by its length
PromptOf(len) == [i \in 1..len |-> "x"]

\* id of the response to ingest part k (k from 1)
IngestId(k) == <<4, k>>

\* an ingest that chains every part from the id the run started with
ChainFromBase(lastId, prevId) == prevId

\* prev_id=last_id in the payload of an ingest part
IngestPrevId(lastId, prevId) == lastId

IgInit ==
    /\ igPc = "start"
    /\ igCfg = [mode |-> "QA", batch |-> FALSE, len |-> 0, responseId |-> NoRespId]
    /\ igStop = FALSE
    /\ igChunks = <<>>
    /\ igI = 0
    /\ igLast = NoRespId
    /\ igReqs = <<>>

\* the first request of the flow that follows, chained from base_prev_id
\* (A1, B1; QA and the batch flow send theirs)
IgFirstRequest(basePrevId) ==
    /\ igReqs' = Append(igReqs,
                        [stage |-> (IF igCfg.batch THEN "C"
                                    ELSE IF igCfg.mode = "GENERATE" THEN "A1"
                                    ELSE IF igCfg.mode = "MODIFY" THEN "B1" ELSE "QA"),
                         part |-> 0, prev |-> basePrevId])
    /\ igPc' = (IF ~igCfg.batch /\ igCfg.mode \in {"GENERATE", "MODIFY"} THEN "plan" ELSE "other")

\* run(): base_prev_id is None for the batch flow, the result of
\* _ingest_prompt_if_needed for GENERATE and MODIFY, cfg.response_id otherwise;
\* _ingest_prompt_if_needed returns prev_id for a prompt of at most the
\* threshold and splits a longer one
IgBegin ==
    /\ igPc = "start"
    /\ IF igCfg.batch
       THEN IgFirstRequest(NoRespId) /\ UNCHANGED <<igChunks, igLast>>
       ELSE IF igCfg.mode \notin {"GENERATE", "MODIFY"}
       THEN IgFirstRequest(igCfg.responseId) /\ UNCHANGED <<igChunks, igLast>>
       ELSE IF igCfg.len <= IngestThreshold
       THEN IgFirstRequest(igCfg.responseId) /\ UNCHANGED <<igChunks, igLast>>
       ELSE /\ igChunks' = SplitText(PromptOf(igCfg.len), IngestChunk)
            /\ igLast' = igCfg.responseId
            /\ igPc' = "ingest"
            /\ UNCHANGED igReqs
    /\ UNCHANGED <<igCfg, igStop, igI>>
    /\ UNCHANGED notIg

\* top of `for i, ch in enumerate(chunks)`: the stop check and the request
\* for the part, or the end of the loop and the plan request
IgPart ==
    /\ igPc = "ingest"
    /\ IF igI = Len(igChunks)
       THEN IgFirstRequest(igLast)
       ELSE IF igStop
       THEN igPc' = "stopped" /\ UNCHANGED igReqs
       ELSE /\ igReqs' = Append(igReqs, [stage |-> "A0", part |-> igI + 1,
                                         prev |-> IngestPrevId(igLast, igCfg.responseId)])
            /\ igPc' = "wait"
    /\ UNCHANGED <<igCfg, igStop, igChunks, igI, igLast>>
    /\ UNCHANGED notIg

\* with_retry(create_response) of the part is over: it raised, the response
\* has no id, or last_id is the id of the response
IgPartResponse ==
    /\ igPc = "wait"
    /\ \E outcome \in {"response", "no_id", "error"} :
         IF outcome = "response"
         THEN /\ igLast' = IngestId(igI + 1)
              /\ igI' = igI + 1
              /\ igPc' = "ingest"
         ELSE /\ igPc' = "failed"
              /\ UNCHANGED <<igI, igLast>>
    /\ UNCHANGED <<igCfg, igStop, igChunks, igReqs>>
    /\ UNCHANGED notIg

\* request_stop() from the UI thread
IgRequestStop ==
    /\ igPc \in {"ingest", "wait"}
    /\ ~igStop
    /\ igStop' = TRUE
    /\ UNCHANGED <<igPc, igCfg, igChunks, igI, igLast, igReqs>>
    /\ UNCHANGED notIg

IgNext == IgBegin \/ IgPart \/ IgPartResponse \/ IgRequestStop

-----------------------------------------------------------------------------
(* ModelProbeWorker._probe_one, ModelCapabilitiesCache.save / load           *)

ProbeParams == {"previous_response_id", "temperature", "tools"}

\* str(e) of a failed call, by what _err_indicates_param_unsupported reads in
\* it: the parameter name it holds (if any) and whether it holds one of the
\* rejection phrases; a transient error (429, 5xx, network) holds neither
NoErr == [param |-> "none", rejects |-> FALSE, transient |-> FALSE]
TransientErr == [param |-> "none", rejects |-> FALSE, transient |-> TRUE]
ProbeErrors ==
    {TransientErr}
    \cup [param : ProbeParams, rejects : BOOLEAN, transient : {FALSE}]

\* `if not err: return False`, then a rejection phrase together with the key
ErrIndicatesParamUnsupported(err, key) ==
    err # NoErr /\ err.rejects /\ err.param = key

ErrKeys ==
    {"basic", "previous_response_id_param", "previous_response_id_inconclusive",
     "temperature_param", "temperature_inconclusive", "tools_param", "tools_inconclusive"}
NoErrs == [k \in ErrKeys |-> NoErr]

\* the record _probe_one returns when the basic call failed
BasicFailed(err) ==
    [okBasic |-> FALSE, supportsPrev |-> TRUE, supportsTemp |-> FALSE,
     supportsTools |-> FALSE, supportsFileSearch |-> FALSE, supportsVectorStore |-> FALSE,
     notes |-> "basic call failed", errors |-> [NoErrs EXCEPT !["basic"] = err]]

\* the record _probe_one returns at its end
Probed(flags, errs) ==
    [okBasic |-> TRUE, supportsPrev |-> flags.prev, supportsTemp |-> flags.temp,
     supportsTools |-> flags.tools, supportsFileSearch |-> flags.fileSearch,
     supportsVectorStore |-> flags.fileSearch, notes |-> "ok", errors |-> errs]

\* ModelCapabilitiesCache._apply_error_overrides
ApplyErrorOverrides(caps) ==
    [caps EXCEPT
       !.supportsTemp =
           IF \E k \in ErrKeys : ErrIndicatesParamUnsupported(caps.errors[k], "temperature")
           THEN FALSE ELSE @,
       !.supportsPrev =
           IF caps.errors["previous_response_id_param"] # NoErr THEN FALSE ELSE @]

PbInit ==
    /\ pbPc = "basic"
    /\ pbVs = FALSE
    /\ pbRespId = FALSE
    /\ pbErrs = NoErrs
    /\ pbFlags = [prev |-> TRUE, temp |-> TRUE, tools |-> FALSE, fileSearch |-> FALSE]
    /\ pbData = <<>>
    /\ pbFile = <<>>

\* _probe_one is called with or without vs_id; 1) the basic call; a failure
\* ends the probe and the record is upserted
PbBasic ==
    /\ pbPc = "basic"
    /\ pbVs' \in BOOLEAN
    /\ \/ \E err \in ProbeErrors :
            /\ pbData' = <<BasicFailed(err)>>
            /\ pbErrs' = [pbErrs EXCEPT !["basic"] = err]
            /\ pbPc' = "probed"
            /\ UNCHANGED pbRespId
       \/ \E id \in BOOLEAN :
            /\ pbRespId' = id
            /\ pbPc' = "prev"
            /\ UNCHANGED <<pbData, pbErrs>>
    /\ UNCHANGED <<pbFlags, pbFile>>
    /\ UNCHANGED notPb

\* 2) the previous_response_id continuity test, only with a response id
PbPrev ==
    /\ pbPc = "prev"
    /\ IF ~pbRespId THEN UNCHANGED <<pbFlags, pbErrs>>
       ELSE \/ UNCHANGED <<pbFlags, pbErrs>>
            \/ \E errp \in ProbeErrors :
                 IF ErrIndicatesParamUnsupported(errp, "previous_response_id")
                 THEN /\ pbFlags' = [pbFlags EXCEPT !.prev = FALSE]
                      /\ pbErrs' = [pbErrs EXCEPT !["previous_response_id_param"] = errp]
                 ELSE /\ pbFlags' = [pbFlags EXCEPT !.prev = TRUE]
                      /\ pbErrs' = [pbErrs EXCEPT !["previous_response_id_inconclusive"] = errp]
    /\ pbPc' = "temp"
    /\ UNCHANGED <<pbVs, pbRespId, pbData, pbFile>>
    /\ UNCHANGED notPb

\* 3) the temperature test
PbTemp ==
    /\ pbPc = "temp"
    /\ \/ UNCHANGED <<pbFlags, pbErrs>>
       \/ \E errt \in ProbeErrors :
            IF ErrIndicatesParamUnsupported(errt, "temperature")
            THEN /\ pbFlags' = [pbFlags EXCEPT !.temp = FALSE]
                 /\ pbErrs' = [pbErrs EXCEPT !["temperature_param"] = errt]
            ELSE /\ pbFlags' = [pbFlags EXCEPT !.temp = TRUE]
                 /\ pbErrs' = [pbErrs EXCEPT !["temperature_inconclusive"] = errt]
    /\ pbPc' = "tools"
    /\ UNCHANGED <<pbVs, pbRespId, pbData, pbFile>>
    /\ UNCHANGED notPb

\* 4) the tools / file_search test, only with a vector store; the record is
\* built and upserted
PbTools ==
    /\ pbPc = "tools"
    /\ \E outcome \in (IF pbVs THEN {NoErr} \cup ProbeErrors ELSE {NoErr}) :
         LET flags == IF pbVs /\ outcome = NoErr
                      THEN [pbFlags EXCEPT !.tools = TRUE, !.fileSearch = TRUE]
                      ELSE pbFlags
             errs == IF ~pbVs \/ outcome = NoErr THEN pbErrs
                     ELSE IF ErrIndicatesParamUnsupported(outcome, "tools")
                     THEN [pbErrs EXCEPT !["tools_param"] = outcome]
                     ELSE [pbErrs EXCEPT !["tools_inconclusive"] = outcome]
         IN /\ pbFlags' = flags
            /\ pbErrs' = errs
            /\ pbData' = <<Probed(flags, errs)>>
    /\ pbPc' = "probed"
    /\ UNCHANGED <<pbVs, pbRespId, pbFile>>
    /\ UNCHANGED notPb

\* cache.save(): to_dict of every record
PbSave ==
    /\ pbPc = "probed"
    /\ pbFile' = pbData
    /\ pbPc' = "saved"
    /\ UNCHANGED <<pbVs, pbRespId, pbErrs, pbFlags, pbData>>
    /\ UNCHANGED notPb

\* cache.load() in a later session: from_dict, then _apply_error_overrides
PbLoad ==
    /\ pbPc = "saved"
    /\ pbData' = <<ApplyErrorOverrides(pbFile[1])>>
    /\ pbPc' = "loaded"
    /\ UNCHANGED <<pbVs, pbRespId, pbErrs, pbFlags, pbFile>>
    /\ UNCHANGED notPb

PbNext == PbBasic \/ PbPrev \/ PbTemp \/ PbTools \/ PbSave \/ PbLoad

-----------------------------------------------------------------------------
(* RunWorker: what the capability snapshot lets into a request payload       *)

\* a key of cfg.model_caps: True, False, or not in the snapshot
CapValues == {"true", "false", "absent"}

\* cfg.mode, cfg.send_as_c, the snapshot's supports_temperature and
\* supports_file_search, cfg.use_file_search, self._vector_store_ids non-empty
\* after the IN upload and the diagnostics, diag_file_ids non-empty,
\* len(cfg.prompt) > 150000
PlConfigs ==
    [mode : RunModes, batch : BOOLEAN, temperature : CapValues, fileSearch : CapValues,
     useFileSearch : BOOLEAN, stores : BOOLEAN, diag : BOOLEAN, longPrompt : BOOLEAN]

\* a payload builder that never reads the snapshot
AlwaysTemperature(cfg) == TRUE

\* self.cfg.model_caps.get("supports_temperature", True)
SupportsTemperature(cfg) == cfg.temperature # "false"

\* bool(self.cfg.model_caps.get("supports_file_search", False))
SupportsFileSearch(cfg) == cfg.fileSearch = "true"

NoLocal == [supportsFs |-> FALSE, tools |-> FALSE, vsIds |-> FALSE]

\* the requests of a flow in order (one A3 / B3 chunk request stands for all)
StagesOf(cfg) ==
    IF cfg.batch THEN <<"C">>
    ELSE CASE cfg.mode = "GENERATE" ->
                (IF cfg.longPrompt THEN <<"A0">> ELSE <<>>) \o <<"A1", "A2", "A3">>
           [] cfg.mode = "MODIFY" ->
                (IF cfg.longPrompt THEN <<"A0">> ELSE <<>>) \o <<"B1", "B2", "B3">>
           [] cfg.mode = "QA" -> <<"QA">>
           [] cfg.mode = "QFILE" -> <<"QFILE">>

\* _payload_base: temperature is cfg.temperature when the snapshot allows it
PayloadBase(cfg) ==
    [temperature |-> (IF SupportsTemperature(cfg) THEN "cfg" ELSE "none"), tools |-> FALSE]

\* `payload["temperature"] = 0.0` of QFILE and _gen_file_chunks
Deterministic(cfg, payload) ==
    IF SupportsTemperature(cfg) THEN [payload EXCEPT !.temperature = "zero"] ELSE payload

\* the payload of a stage; the batch body carries no tools
PayloadOf(stage, cfg, fsTools, local) ==
    LET base == PayloadBase(cfg) IN
    [stage |-> stage] @@
    CASE stage \in {"A0", "C"} -> base
      [] stage \in {"A1", "A2", "QA"} -> [base EXCEPT !.tools = fsTools]
      [] stage = "QFILE" -> [Deterministic(cfg, base) EXCEPT !.tools = fsTools]
      [] stage = "A3" -> [Deterministic(cfg, base) EXCEPT !.tools = fsTools]
      [] stage \in {"B1", "B2"} -> [base EXCEPT !.tools = local.supportsFs /\ local.tools]
      [] stage = "B3" -> [Deterministic(cfg, base) EXCEPT !.tools = local.supportsFs /\ local.tools]

PlInit ==
    /\ plPc = "start"
    /\ plCfg = [mode |-> "QA", batch |-> FALSE, temperature |-> "absent",
                fileSearch |-> "absent", useFileSearch |-> FALSE, stores |-> FALSE,
                diag |-> FALSE, longPrompt |-> FALSE]
    /\ plFsTools = FALSE
    /\ plLocal = NoLocal
    /\ plStages = <<>>
    /\ plReqs = <<>>

\* run(): QFILE as batch is refused; self._fs_tools is set when the snapshot
\* supports file_search, file search is on or there are diagnostics, and
\* there is a vector store; then the flow of the mode starts
PlRun ==
    /\ plPc = "start"
    /\ IF plCfg.mode = "QFILE" /\ plCfg.batch
       THEN /\ plPc' = "failed"
            /\ UNCHANGED <<plFsTools, plStages>>
       ELSE /\ plFsTools' = (SupportsFileSearch(plCfg)
                              /\ (plCfg.useFileSearch \/ plCfg.diag) /\ plCfg.stores)
            /\ plStages' = StagesOf(plCfg)
            /\ plPc' = "send"
    /\ UNCHANGED <<plCfg, plLocal, plReqs>>
    /\ UNCHANGED notPl

\* _run_b_modify before B1: supports_fs, the vector store of the mirror (made,
\* made without an id, or failed), then tools and self._fs_tools
PlVectorStore ==
    /\ plPc = "send" /\ plStages # <<>> /\ Head(plStages) = "B1"
    /\ plLocal = NoLocal /\ ~plCfg.batch
    /\ LET supportsFs0 == SupportsFileSearch(plCfg) /\ plCfg.useFileSearch IN
       \E made \in (IF supportsFs0 THEN {"id", "no_id", "raised"} ELSE {"skipped"}) :
         LET vsIds == plCfg.stores \/ made = "id"
             supportsFs == IF made = "raised" THEN vsIds ELSE supportsFs0
             tools == supportsFs /\ vsIds
         IN /\ plLocal' = [supportsFs |-> supportsFs, tools |-> tools, vsIds |-> vsIds]
            /\ plFsTools' = (IF tools THEN TRUE ELSE plFsTools)
    /\ plPc' = "vector"
    /\ UNCHANGED <<plCfg, plStages, plReqs>>
    /\ UNCHANGED notPl

\* the next request of the flow is built and sent (or the call fails)
PlSend ==
    /\ \/ plPc = "send" /\ plStages # <<>> /\ Head(plStages) # "B1"
       \/ plPc = "vector"
    /\ plReqs' = Append(plReqs, PayloadOf(Head(plStages), plCfg, plFsTools, plLocal))
    /\ \/ plStages' = Tail(plStages)
          /\ plPc' = (IF Len(plStages) = 1 THEN "done" ELSE "send")
       \/ plStages' = <<>> /\ plPc' = "failed"
    /\ UNCHANGED <<plCfg, plFsTools, plLocal>>
    /\ UNCHANGED notPl

PlNext == PlRun \/ PlVectorStore \/ PlSend

-----------------------------------------------------------------------------
(* RunWorker._prepare_in_dir_upload, scan_tree, the mirror upload loop       *)

\* a file of the IN tree, by what scan_tree tests: a deny glob matches its
\* path, its extension is denied, it is empty, its name is a sensitive name,
\* it is binary, its head matches a secret pattern (the allow lists are None,
\* as in the default SecurityPolicy; no file is above max_size_bytes)
InFiles ==
    [denyGlob : BOOLEAN, denyExt : BOOLEAN, empty : BOOLEAN, sensitiveName : BOOLEAN,
     binary : BOOLEAN, secret : BOOLEAN]

\* ScanItem of a file: the first test that applies decides
ScanItem(f) ==
    IF f.denyGlob THEN [uploadable |-> FALSE, reason |-> "deny_glob", sensitive |-> FALSE]
    ELSE IF f.denyExt
    THEN [uploadable |-> FALSE, reason |-> "denied_extension", sensitive |-> FALSE]
    ELSE IF f.empty THEN [uploadable |-> FALSE, reason |-> "empty_file", sensitive |-> FALSE]
    ELSE IF f.binary
    THEN [uploadable |-> FALSE, reason |-> "binary", sensitive |-> f.sensitiveName]
    ELSE IF f.sensitiveName \/ f.secret
    THEN [uploadable |-> FALSE, reason |-> "sensitive_or_secret_detected", sensitive |-> TRUE]
    ELSE [uploadable |-> TRUE, reason |-> "ok", sensitive |-> FALSE]

\* _zip_in_dir: every file os.walk yields outside venv, .venv and LOG
ZipInDir(tree) == DOMAIN tree

UpInit ==
    /\ upPc = "start"
    /\ upTree = <<>>
    /\ upItems = <<>>
    /\ upNext = 1
    /\ upSent = {}

\* run(): _prepare_in_dir_upload zips the IN directory and uploads the archive
UpPrepareInDir ==
    /\ upPc = "start"
    /\ \/ /\ upSent' = upSent \cup {[file |-> i, via |-> "archive"] : i \in ZipInDir(upTree)}
          /\ upPc' = "scan"
       \/ upPc' = "failed" /\ UNCHANGED upSent
    /\ UNCHANGED <<upTree, upItems, upNext>>
    /\ UNCHANGED notUp

\* _run_b_modify: scan_tree, build_manifest, upload of the manifest
UpScan ==
    /\ upPc = "scan"
    /\ upItems' = [i \in DOMAIN upTree |-> ScanItem(upTree[i])]
    /\ upPc' = "mirror"
    /\ UNCHANGED <<upTree, upNext, upSent>>
    /\ UNCHANGED notUp

\* `for it in up_items`: the next uploadable item is uploaded
UpMirrorFile ==
    /\ upPc = "mirror"
    /\ IF upNext > Len(upItems) THEN upPc' = "done" /\ UNCHANGED <<upNext, upSent>>
       ELSE /\ upNext' = upNext + 1
            /\ upSent' = (IF upItems[upNext].uploadable
                          THEN upSent \cup {[file |-> upNext, via |-> "mirror"]}
                          ELSE upSent)
            /\ UNCHANGED upPc
    /\ UNCHANGED <<upTree, upItems>>
    /\ UNCHANGED notUp

UpNext == UpPrepareInDir \/ UpScan \/ UpMirrorFile

-----------------------------------------------------------------------------
(* Specifications *)

Init == OutInit /\ RcInit /\ WkInit({"none"}) /\ RwInit /\ CkInit /\ RnInit /\ LgInit /\ RtInit /\ UpInit /\ PlInit /\ PbInit /\ IgInit /\ LbInit /\ SkInit /\ UsInit /\ GnInit /\ CdInit /\ PtInit /\ StInit /\ VpInit

InitWorkers ==
    /\ OutInit /\ RcInit /\ WkInit({"run", "cascade"}) /\ RwInit /\ CkInit
    /\ RnInit /\ rnCfg.mode = rwMode /\ ~rnCfg.batch /\ ~rnCfg.resume /\ ~rnCfg.inDir
    /\ ~rnCfg.stores /\ ~rnCfg.longPrompt /\ rnCfg.prevId = "true"
    /\ LgInit /\ RtInit /\ UpInit /\ PlInit /\ PbInit /\ IgInit /\ LbInit /\ SkInit /\ UsInit /\ GnInit /\ CdInit /\ PtInit /\ StInit /\ VpInit

InitRun == OutInit /\ RcInit /\ WkInit({"run"}) /\ RwInit /\ CkInit /\ RnInit /\ LgInit /\ RtInit /\ UpInit /\ PlInit /\ PbInit /\ IgInit /\ LbInit /\ SkInit /\ UsInit /\ GnInit /\ CdInit /\ PtInit /\ StInit /\ VpInit

RunNext == RnNext \/ WkRequestStop

SpecRun == InitRun /\ [][RunNext]_vars

WorkersNext == RwNext \/ CkNext \/ WkRequestStop

SpecWorkers == InitWorkers /\ [][WorkersNext]_vars

SpecOut == Init /\ [][OutNext]_vars

SpecReceipt == Init /\ [][RcNext]_vars

SpecLog == Init /\ [][LgNext]_vars

InitDef ==
    /\ OutInit /\ RcInit /\ WkInit({"none"}) /\ RwInit /\ CkInit /\ RnInit /\ LgInit /\ RtInit /\ UpInit /\ PlInit /\ PbInit /\ IgInit /\ LbInit /\ SkInit /\ UsInit /\ GnInit
    /\ cdPc = "made"
    /\ cdDef \in DefInputs
    /\ cdData = DefToDict(DefaultDef, 8)
    /\ cdBack = DefaultDef
    /\ PtInit /\ StInit /\ VpInit
SpecDef == InitDef /\ [][CdNext]_vars

SpecPrice == Init /\ [][PtNext]_vars

InitSplit ==
    /\ OutInit /\ RcInit /\ WkInit({"none"}) /\ RwInit /\ CkInit /\ RnInit /\ LgInit /\ RtInit /\ UpInit /\ PlInit /\ PbInit /\ IgInit /\ LbInit /\ SkInit /\ UsInit /\ GnInit
    /\ CdInit /\ PtInit /\ VpInit
    /\ stText \in Texts
    /\ stK \in 0..MaxK
    /\ stOut = <<>>
    /\ stCapsOut = <<>>
SpecSplit == InitSplit /\ [][StNext]_vars

InitPaths ==
    /\ OutInit /\ RcInit /\ WkInit({"none"}) /\ RwInit /\ CkInit /\ RnInit /\ LgInit /\ RtInit /\ UpInit /\ PlInit /\ PbInit /\ IgInit /\ LbInit /\ SkInit /\ UsInit /\ GnInit
    /\ CdInit /\ PtInit /\ StInit
    /\ vpFiles \in EntryLists
    /\ vpResult = "none"
SpecPaths == InitPaths /\ [][VpNext]_vars

SpecGen == Init /\ [][GnNext]_vars

SpecState == Init /\ [][UsNext]_vars

SpecStop == Init /\ [][SkNext]_vars

InitLabel ==
    /\ OutInit /\ RcInit /\ WkInit({"none"}) /\ RwInit /\ CkInit /\ RnInit /\ LgInit /\ RtInit /\ UpInit /\ PlInit /\ PbInit /\ IgInit
    /\ SkInit /\ UsInit /\ GnInit /\ CdInit /\ PtInit /\ StInit /\ VpInit
    /\ lbProject \in LbProjects
    /\ lbRnd \in LbRnds
    /\ lbStage \in LbStages
    /\ lbRespId \in LbIds
    /\ lbName = <<>>
    /\ lbLabel = "none"
    /\ lbBatch = FALSE
SpecLabel == InitLabel /\ [][LbNext]_vars

InitIngest ==
    /\ OutInit /\ RcInit /\ WkInit({"none"}) /\ RwInit /\ CkInit /\ RnInit /\ LgInit /\ RtInit /\ UpInit /\ PlInit /\ PbInit
    /\ LbInit /\ SkInit /\ UsInit /\ GnInit /\ CdInit /\ PtInit /\ StInit /\ VpInit
    /\ igPc = "start"
    /\ igCfg \in IgConfigs
    /\ igStop = FALSE
    /\ igChunks = <<>>
    /\ igI = 0
    /\ igLast = NoRespId
    /\ igReqs = <<>>
SpecIngest == InitIngest /\ [][IgNext]_vars

SpecProbe == Init /\ [][PbNext]_vars

InitPayload ==
    /\ OutInit /\ RcInit /\ WkInit({"none"}) /\ RwInit /\ CkInit /\ RnInit /\ LgInit /\ RtInit /\ UpInit
    /\ PbInit /\ IgInit /\ LbInit /\ SkInit /\ UsInit /\ GnInit /\ CdInit /\ PtInit /\ StInit /\ VpInit
    /\ plPc = "start"
    /\ plCfg \in PlConfigs
    /\ plFsTools = FALSE
    /\ plLocal = NoLocal
    /\ plStages = <<>>
    /\ plReqs = <<>>
SpecPayload == InitPayload /\ [][PlNext]_vars

InitUpload ==
    /\ OutInit /\ RcInit /\ WkInit({"none"}) /\ RwInit /\ CkInit /\ RnInit /\ LgInit /\ RtInit
    /\ PlInit /\ PbInit /\ IgInit /\ LbInit /\ SkInit /\ UsInit /\ GnInit /\ CdInit /\ PtInit
    /\ StInit /\ VpInit
    /\ upPc = "start"
    /\ upTree \in [1..MaxInFiles -> InFiles]
    /\ upItems = <<>>
    /\ upNext = 1
    /\ upSent = {}
SpecUpload == InitUpload /\ [][UpNext]_vars

SpecRetry == Init /\ [][RtNext]_vars /\ WF_vars(RtStep)

-----------------------------------------------------------------------------
(* Claims *)

\* C1: every file written by the output stage resolves strictly inside out_dir.
C1_WritesInsideOutDir ==
    \A i \in 1..Len(outSaved) : StrictlyInside(Resolve(outSaved[i].dst), OutDirLoc)


RowsWithResp(r) == {i \in 1..Len(rcRows) : rcRows[i].rid = r}
RowsWithBatch(b) == {i \in 1..Len(rcRows) : rcRows[i].bid = b}

\* C2: in every reachable state of the receipt store there is at most one
\* row per response_id and at most one per batch_id.
C2_OneRowPerId ==
    /\ \A r \in {rcRows[i].rid : i \in 1..Len(rcRows)} \ {NoId} : Cardinality(RowsWithResp(r)) <= 1
    /\ \A b \in {rcRows[i].bid : i \in 1..Len(rcRows)} \ {NoId} : Cardinality(RowsWithBatch(b)) <= 1

\* C3: when audit() returns, every response id it read from the response
\* files has exactly one receipt row, and every batch id at most one.
C3_AuditPost ==
    /\ \A r \in auSeen : Cardinality(RowsWithResp(r)) = 1
    /\ \A b \in {rcRows[i].bid : i \in 1..Len(rcRows)} \ {NoId} : Cardinality(RowsWithBatch(b)) <= 1

\* C3 as a property of the step in which audit() returns
C3_ExactlyOneRowAfterAudit == [][(auPc = "scan" /\ auPc' = "done") => C3_AuditPost']_vars

\* C4: an audit() that runs right after another one, with no orchestrator
\* step since the first began, inserts no row.
C4_SecondAuditInsertsNothing == (auPc = "done" /\ auQuiet) => auInserted = 0

\* the stop flag was observed during per-file generation after a chunk
\* response had been received
StoppedAfterChunks ==
    /\ rwStopAt \in {"file", "chunk"}
    /\ Len(rwOutFiles) > 0 \/ rwChunk > 0

\* C5: a fallback receipt inserted after the stop flag was observed during
\* per-file generation, with chunk responses already received, carries the
\* sums of the usage of the responses the run has received.
C5_StopReceiptCarriesUsage ==
    \A i \in 1..Len(rwReceipts) :
        (rwReceipts[i].flow = "RUN_STOPPED" /\ StoppedAfterChunks)
            => (rwReceipts[i].inp = rwRecv[1] /\ rwReceipts[i].out = rwRecv[2])

\* the worker unwound with STOP_REQUESTED and its handler persisted a status
StopPersisted ==
    /\ wkExc = "STOP_REQUESTED"
    /\ wkPc = "emit_err" \/ wkSignal = "finished_err"

\* C6: a worker that unwinds with STOP_REQUESTED persists the status
\* stopped_by_user, never failed or completed.
C6_StopPersistsStoppedByUser ==
    StopPersisted => (wkStatus = "stopped_by_user" /\ wkStatus \notin {"failed", "completed"})


\* C7: in the step that emits finished_ok / finished_err the terminal status
\* is already in run_state.json, written by an earlier step, and it matches
\* the signal.
C7_StatusBeforeSignal ==
    [][(wkSignal' # wkSignal) =>
         /\ wkStatus \in TerminalStatuses
         /\ wkStatus' = wkStatus
         /\ (wkSignal' = "finished_ok") <=> (wkStatus = "completed")]_vars

C7_Witness == wkSignal = "finished_ok" /\ wkStatus = "completed"

AllParts == {rwParts[i] : i \in 1..Len(rwParts)}
                \cup UNION {{rwOutFiles[f][i] : i \in 1..Len(rwOutFiles[f])} : f \in 1..Len(rwOutFiles)}

\* C8: every part appended from a response comes from a response that parsed
\* as a JSON object whose contract is the literal requested for the stage.
C8_AcceptedChunksMatchContract ==
    \A part \in AllParts :
        part.src = "response" =>
            (part.obj /\ part.contract = FileContract(rwMode))

C8_Witness ==
    /\ \E f \in 1..Len(rwOutFiles) : Len(rwOutFiles[f]) = 2 /\ rwOutFiles[f][2].src = "response"
    /\ rwMode = "MODIFY"

EffectiveOut == Resolve(SelectOutDirForStep(ckOutCfg))

\* what C9 asks of the latest completed step for the declared path pk, with
\* rel the spelling of pk in the context keys
ExpectedFileRecorded(rel) ==
    LET kp == CtxKey(ckLast.idx, "out_file_path", rel)
        ki == CtxKey(ckLast.idx, "out_file_id", rel)
    IN  /\ kp \in DOMAIN ckContext
        /\ ki \in DOMAIN ckContext
        /\ Resolve(ckContext[kp].p) \in ckDiskFiles
        /\ StrictlyInside(Resolve(ckContext[kp].p), EffectiveOut)
        /\ rel \in ckLast.manifest

\* C9 as stated: after a step that declares expected_out_files completes,
\* the context has the keys step.i.out_file_path:pk and step.i.out_file_id:pk
\* for each declared pk, the file exists under the effective OUT and pk is
\* among the manifest paths.
C9_KeysForDeclaredPaths ==
    \A i \in 1..Len(ckLast.declared) : ExpectedFileRecorded(ckLast.declared[i])

\* C9 amended: the same with each declared pk in its normalized spelling
\* (trimmed, "\\" as "/", no leading "/", no empty segments), which is also
\* how the manifest paths are compared.
C9_KeysForNormalizedPaths ==
    \A i \in 1..Len(ckLast.declared) :
        ExpectedFileRecorded(NormalizeExpectedRelPath(ckLast.declared[i]).rel)

C9_Witness ==
    /\ ckLast.idx = 2
    /\ ckLast.declared = <<<<"/", "a">>>>
    /\ ckLast.ids # <<>>

\* C10: the placeholder step i+1 uses for step i resolves to what step i
\* produced; for out_file_id:REL with REL declared by step i the payload
\* carries an input_file part with the file id of step i's upload of REL.
C10_PlaceholdersResolve ==
    (wkPc = "respond" /\ ckLast.idx > 0 /\ ckPayload.idx = ckLast.idx + 1
        /\ ckPayload.ph.n = ckLast.idx)
    => LET ph == ckPayload.ph
           val == ckPayload.val
           ids == {ckLast.ids[j] : j \in {k \in 1..Len(ckLast.declared) : ckLast.declared[k] = ph.rel}}
       IN  /\ ph.key = "response_id" => val = IdVal(ckLast.rid)
           /\ ph.key = "json" => val = (IF ckLast.json THEN IdVal(ckLast.idx) ELSE NoVal)
           /\ (ph.key = "out_file_path" /\ ids # {}) => Resolve(val.p) \in ckDiskFiles
           /\ (ph.key = "out_file_id" /\ ids # {}) =>
                  \E k \in 1..Len(ckPayload.parts) :
                      /\ ckPayload.parts[k].type = "input_file"
                      /\ ckPayload.parts[k].val.n \in ids

\* the run of a RunWorker is over: run() has returned
RunOver == wkWorker = "run" /\ wkPc = "end"

\* the capability snapshot says supports_previous_response_id is false, the
\* mode is GENERATE or MODIFY and the run is not a batch submission
RejectingRun ==
    /\ wkWorker = "run"
    /\ rnCfg.prevId = "false" /\ rnCfg.mode \in {"GENERATE", "MODIFY"} /\ ~rnCfg.batch

C12_OneReceiptPerRun ==
    RunOver =>
        /\ Len(rnReceipts) = 1
        /\ wkStatus = "completed" => (rnReceipts[1].kind = "mode" /\ rnReceipts[1].rid)
        /\ wkStatus \in {"failed", "stopped"} => rnReceipts[1].kind = "fallback"

\* C20: no remote call is started once request_stop() has been called, and no
\* handler other than the one of run() catches a STOP_REQUESTED.
C20_NoCallAfterStop == ~rnAfterStop /\ ~rnSwallowed

\* what the run directory holds, file by file
LogWritten == {lgEvents[i] : i \in 1..Len(lgEvents)} \cup {lgState[i] : i \in 1..Len(lgState)} \cup lgBlobs

\* a written value is clean: its string does not start with "bearer " in any
\* letter case, and a secret key holds the placeholder
CleanValue(v) ==
    /\ ~IsPrefix(BearerSp, Lower(v.leaf))
    /\ \A i \in 1..Len(v.wraps) :
         (v.wraps[i].t = "dict" /\ Lower(v.wraps[i].k) \in RedactKeys)
            => (i = Len(v.wraps) /\ v.leaf = Placeholder)

\* C13: nothing written to events.jsonl, run_state.json or a saved blob holds
\* a string starting with "Bearer " (any letter case) or a secret key with a
\* value other than the placeholder, whatever containers the data nests.
C13_LogIsRedacted == \A v \in LogWritten : CleanValue(v)

\* C14: once a response that is neither 2xx nor 429 nor 5xx has arrived, no
\* further HTTP request is sent, fn is not invoked again, no breaker failure
\* is recorded, and with_retry ends by raising the OpenAIError.
C14_HardErrorNotRetried ==
    rtHard.seen =>
        /\ rtHttpAll = rtHard.http
        /\ rtThunks = rtHard.thunks
        /\ rtFails = rtHard.fails
        /\ rtPc = "done" /\ rtResult.type = "OpenAIError"

\* C15 (safety part): fn is invoked at most policy.max_attempts times, a _req
\* call sends at most max_attempts HTTP requests, a successful invocation
\* ends with_retry with its result, and a raise carries the last error.
C15_BoundedAttempts ==
    /\ rtThunks <= PolicyMaxAttempts
    /\ rtHttp <= ClientMaxAttempts
    /\ rtLastOutcome = "ok" => (rtPc = "done" /\ rtResult.type = "returned")
    /\ (rtPc = "done" /\ rtResult.type # "returned") =>
          rtResult = (IF rtLast.type # "none" THEN rtLast ELSE RetryFailed)

\* C15: a remote operation always terminates, within the bounds above.
C15_RetryTerminates == []C15_BoundedAttempts /\ ((rtPc = "loop") ~> (rtPc = "done"))

C15_Witness ==
    /\ rtPc = "done" /\ rtResult.type = "returned"
    /\ rtFails > 0 /\ rtHttp > 1

\* a step that from_dict leaves as it is
NormalStep(st) ==
    /\ st.input_content_json \in {"None", "dict", "list"}
    /\ \A xs \in {st.files_existing_ids, st.files_local_paths, st.expected_out_files} :
          \A i \in 1..Len(xs) : Strip(xs[i]) # <<>>
    /\ \/ st.previous_response_id_expr.isNone
       \/ /\ st.previous_response_id_expr.str # <<>>
          /\ Strip(st.previous_response_id_expr.str) = st.previous_response_id_expr.str
    /\ st.output_type \in {TextType, JsonType}
    /\ st.output_schema_kind \in {"None", "manifest", "prompts", "custom"}

\* a definition in the form from_dict produces
NormalDef(d) ==
    /\ d.name # <<>>
    /\ d.version >= 1
    /\ d.created_at # 0 /\ d.updated_at # 0
    /\ Strip(d.default_out_dir) = d.default_out_dir
    /\ \A i \in 1..Len(d.steps) : NormalStep(d.steps[i])

\* C16 (as stated): from_dict(d.to_dict()) equals d for any definition.
C16_RoundTripAny == cdPc = "loaded" => cdBack = cdDef

\* C16 (amended): from_dict(d.to_dict()) equals d, field by field and step by
\* step, for every definition that is in the form from_dict produces.
C16_RoundTripNormal == (cdPc = "loaded" /\ NormalDef(cdDef)) => cdBack = cdDef

C16_Witness ==
    /\ cdPc = "loaded" /\ NormalDef(cdDef) /\ cdBack = cdDef
    /\ Len(cdDef.steps) = 1
    /\ cdDef.steps[1].output_type = JsonType
    /\ ~cdDef.steps[1].previous_response_id_expr.isNone

\* C17: after update_from_rows(R, v) with non-empty R, save_cache and
\* load_cache, the table holds every row of R, every row held before and
\* not overridden by R, and the built-in models; once merged in, the
\* built-in models stay.
C17_UpdateKeepsRows ==
    /\ ptStage = "loaded" =>
          /\ \A m \in DOMAIN ptR : m \in DOMAIN ptRows /\ ptRows[m] = ptR[m]
          /\ \A m \in DOMAIN ptPrev \ DOMAIN ptR : m \in DOMAIN ptRows /\ ptRows[m] = ptPrev[m]
          /\ DOMAIN BuiltinRows \subseteq DOMAIN ptRows
    /\ ptLastUpdated > 0 => DOMAIN BuiltinRows \subseteq DOMAIN ptRows

\* text[0] + text[1] + ...
RECURSIVE ConcatAll(_)
ConcatAll(chunks) == IF chunks = <<>> THEN <<>> ELSE Head(chunks) \o ConcatAll(Tail(chunks))

\* C18: for k > 0, split_text(text, k) is [""] for the empty text and
\* otherwise ceil(len(text) / k) chunks of at most k characters, all but the
\* last of exactly k, whose concatenation is text; both copies agree.
C18_SplitText ==
    /\ (stOut # <<>> /\ stK > 0) =>
          IF stText = <<>> THEN stOut = <<<<>>>>
          ELSE /\ Len(stOut) = (Len(stText) + stK - 1) \div stK
               /\ \A i \in 1..Len(stOut) : Len(stOut[i]) <= stK
               /\ \A i \in 1..(Len(stOut) - 1) : Len(stOut[i]) = stK
               /\ ConcatAll(stOut) = stText
    /\ (stOut # <<>> /\ stCapsOut # <<>>) => stOut = stCapsOut

C18_Witness ==
    /\ stK = 2 /\ Len(stText) = 3
    /\ Len(stOut) = 2 /\ stCapsOut = stOut

\* the path has a segment ".."
DotDotSegment(p) ==
    \E i \in 1..(Len(p) - 1) :
        /\ p[i] = "." /\ p[i + 1] = "."
        /\ (i = 1 \/ p[i - 1] = "/")
        /\ (i + 1 = Len(p) \/ p[i + 2] = "/")

\* the entry's path is what C19 asks for
GoodEntry(files, i) ==
    /\ files[i].kind = "str" /\ files[i].path # <<>>
    /\ files[i].path[1] \notin {"/", "\\"}
    /\ ~DotDotSegment(files[i].path)
    /\ \A k \in 1..Len(files[i].path) : files[i].path[k] # "\\"
    /\ \A j \in 1..Len(files) : j # i => files[j].path # files[i].path

\* C19: validate_paths(files) returns normally exactly when every entry's
\* path is a non-empty string, does not start with "/" or "\", has no ".."
\* segment, holds no "\" and differs from every other entry's path;
\* otherwise it raises ContractError.
C19_ValidatePathsIff ==
    vpResult # "none" =>
        /\ vpResult = "ok" <=> \A i \in 1..Len(vpFiles) : GoodEntry(vpFiles, i)
        /\ vpResult \in {"ok", "ContractError"}

C19_Witness ==
    /\ vpResult = "ContractError"
    /\ Len(vpFiles) = 2
    /\ vpFiles[1].path = <<"a">>
    /\ vpFiles[2].path = <<"a", "/", ".", ".">>

\* the declared path is absolute, has a ".." segment, holds a "\" or is
\* declared twice
BadDeclared(files, i) ==
    \/ files[i] # <<>> /\ files[i][1] = "/"
    \/ DotDotSegment(files[i])
    \/ \E k \in 1..Len(files[i]) : files[i][k] = "\\"
    \/ \E j \in 1..Len(files) : j # i /\ files[j] = files[i]

\* C28: when a path declared to the output stage is absolute, has a ".."
\* segment, holds a backslash or duplicates another one, the stage fails
\* and writes no file.
C28_BadPathWritesNothing ==
    (\E i \in 1..Len(outFiles) : BadDeclared(outFiles, i)) =>
        (outSaved = <<>> /\ outStatus # "saved")

\* C29: the breaker is open only when at least `failures` on_failure calls
\* were made since the last on_success (or since construction); the counter
\* moves by one per on_failure, and on_success puts it back to zero with the
\* breaker closed, so that fewer failures than `failures` do not open it.
C29_BreakerOpensAtThreshold ==
    /\ [](brOpen => brCount >= BreakerFailures)
    /\ [][/\ brCount' # brCount => (brCount' = brCount + 1 \/ brCount' = 0)
          /\ (rtPc = "req" /\ rtResult'.type = "returned") =>
                (brCount' = 0 /\ ~brOpen')
          /\ (~brOpen /\ brOpen') =>
                (brCount' = brCount + 1 /\ brCount' >= BreakerFailures)]_vars

\* the breaker opened on the failure that brought the counter to `failures`
C29_Witness ==
    /\ brOpen
    /\ brCount = BreakerFailures
    /\ rtLastOutcome = "transient"

\* C30: a with_retry call that met the open breaker does not give up because
\* of the waiting: it never raises without having invoked the thunk.
C30_NeverRaisesUninvoked ==
    (rtPc = "done" /\ rtResult.type # "returned") => rtThunks > 0

\* C21: within a file the request for the next chunk goes out only after the
\* response for the chunk before it was received, parsed and accepted, and
\* no two requests of a run are in flight at the same time.
C21_ChunksOneAfterAnother ==
    /\ [](gnInFlight <= 1)
    /\ []((gnPc = "wait") => (gnInFlight = 1 /\ Len(gnParts) = gnPass - 1))
    /\ [][(gnPass' = gnPass + 1) =>
            /\ gnInFlight = 0
            /\ Len(gnParts) = gnPass
            /\ gnPass > 0 => gnLastId = ChunkId(gnFileIdx, gnPass, gnAttempt + 1)]_vars

\* the request for the second chunk of a file is out, one part accepted
C21_Witness ==
    /\ gnPc = "wait"
    /\ gnPass = 2
    /\ Len(gnParts) = 1
    /\ gnInFlight = 1

\* C22: files are generated in the order of the structure response, and
\* every chunk request of every file carries the response id of the
\* structure stage as previous_response_id.
C22_ChainsFromStructure ==
    /\ (gnReq.stage = "file") => (gnReq.prev = gnResp2 /\ gnResp2 = StructureId)
    /\ (gnPc = "wait") => (gnReq.file = Len(gnOut) + 1 /\ gnReq.file = gnFileIdx)
    /\ Len(gnOut) <= Len(gnFiles)
    /\ \A i \in 1..Len(gnOut) : gnOut[i].path = gnFiles[i]

\* a later chunk of the second file is requested after chunk responses came
C22_Witness ==
    /\ gnPc = "wait"
    /\ gnReq.file = 2
    /\ gnPass = 2
    /\ gnLastId = ChunkId(2, 1, 1)
    /\ gnFiles[1] # gnFiles[2]

\* C23: for one chunk index at most 3 create_response calls get a response
\* that fails the check, and the third such response in a row leaves a
\* contract.mismatch event, does not fail the run and lets the run go on
\* with the next file.
C23_ThreeInvalidThenNextFile ==
    /\ [](gnBad <= MaxAttempts)
    /\ [][(gnPc = "wait" /\ gnBad' = gnBad + 1 /\ gnAttempt = MaxAttempts - 1) =>
            /\ Len(gnEvents') = Len(gnEvents) + 1
            /\ gnEvents'[Len(gnEvents')].event = "contract.mismatch"
            /\ gnPc' = "file"]_vars

\* C24: a file with a persistent contract mismatch, at whatever chunk index,
\* gets the empty string as its content.
C24_MismatchWritesEmpty ==
    \A k \in 1..Len(gnEvents) :
        LET f == gnEvents[k].file IN
        /\ f <= Len(gnOut) => gnOut[f].content = <<>>
        /\ f <= Len(gnWritten) => gnWritten[f].content = <<>>

\* C25: the chunk loop of a file stops or raises the loop-guard error after
\* at most guard + 1 chunk requests (5001 in the source), whatever
\* has_more and next_chunk_index the responses carry.
C25_ChunkLoopBounded == gnPass <= ChunkGuard + 1

\* C26: when the API rejects a chained create_response call with an error
\* that mentions previous_response_id, the run ends with the message for an
\* invalid or expired response id as its error, and sends no further
\* chained request.
C26_PrevIdRejectionMessage ==
    /\ []((gnExc.type = "OpenAIError" /\ TextMentionsPrevId(gnExc.text)) =>
            (gnPc = "failed" /\ gnMsg = PrevIdText))
    /\ [][(gnExc.type = "OpenAIError") => (gnReq' = gnReq /\ gnInFlight' = 0)]_vars

\* the exceptions a plan or structure response can end the run with
StageErrors ==
    {NotJson} \cup {StageMismatch(c) : c \in {"A1_PLAN", "A2_STRUCTURE", "B1_PLAN", "B2_STRUCTURE"}}

\* C27: a plan or structure response that is no JSON object or has another
\* `contract` than the expected one is not asked for again: the run fails,
\* no A3 / B3 request is sent and no output file is written.
C27_StageFailsAtOnce ==
    /\ gnSent.plan <= 1 /\ gnSent.structure <= 1
    /\ (gnExc \in StageErrors) =>
         /\ gnPc = "failed"
         /\ gnReq.stage \in {"plan", "structure"}
         /\ gnFileIdx = 0 /\ gnPass = 0
         /\ gnOut = <<>> /\ gnWritten = <<>>

\* the structure response of a GENERATE run had another contract
C27_Witness ==
    /\ gnPc = "failed"
    /\ gnExc = StageMismatch("A2_STRUCTURE")
    /\ gnResp1 = PlanId
    /\ gnSent.structure = 1

\* C40: the end of the cooldown alone leaves the failure counter of the
\* breaker as it is: until an on_success, one further on_failure opens the
\* breaker again.
C40_CooldownKeepsCount ==
    /\ [][(brOpen /\ ~brOpen') => brCount' = brCount]_vars
    /\ [][(~brOpen /\ brCount >= BreakerFailures /\ brCount' = brCount + 1) => brOpen']_vars
    /\ []((~brOpen /\ brCount >= BreakerFailures) => rtLastOutcome # "ok")

\* the breaker opened, cooled down and was opened again by one failure
C40_Witness ==
    /\ brOpen
    /\ brCount = BreakerFailures + 1
    /\ rtFails = 1

\* the declared expected_out_files pass, the manifest of the step passes,
\* and a declared path is missing from the manifest
FailsForMissing(declared) ==
    LET raw == FromDictExpected(declared)
        expected == [i \in 1..Len(raw) |-> NormalizeExpectedRelPath(raw[i]).rel]
        nm == NormalizeManifest(ckJson.files)
    IN  /\ \A i \in 1..Len(raw) : NormalizeExpectedRelPath(raw[i]).ok
        /\ expected # <<>>
        /\ SelectOutDirForStep(ckOutCfg) # <<>>
        /\ ckJson.isDict /\ ckJson.hasFiles
        /\ nm.ok /\ ValidatePaths(nm.paths)
        /\ \E i \in 1..Len(expected) : expected[i] \notin SeqRange(nm.paths)

\* C39: a cascade step that fails because a declared expected_out_files
\* path is missing from the returned manifest has written no file of that
\* manifest to the OUT directory.
C39_MissingWritesNothing ==
    (wkWorker = "cascade" /\ wkPc = "expected") =>
        \A declared \in DeclaredLists :
            FailsForMissing(declared) =>
                LET r == ProcessExpectedOutFiles(declared, ckPayload.idx, ckJson, ckContext,
                                                 ckDiskFiles, ckDiskDirs, ckOutCfg, ckNextFid, 0)
                IN  ~r.ok /\ r.files = ckDiskFiles

\* the patch names the path, one of its parents or one of its children
PatchMentions(patch, path) ==
    \E p \in patch : IsPrefixOf(p.wraps, path) \/ IsPrefixOf(path, p.wraps)

\* C36: update_state deep-merges: every nested key of the state before the
\* update that the patch does not mention keeps its value, at every depth.
C36_UpdateStateDeepMerges ==
    (usWrites > 0 /\ usReadable) =>
        \A s \in usPrev : ~PatchMentions(usPatch, s.wraps) => s \in usState

\* both threads are through
SkSettled == skUi = "done" /\ skWorker \in {"ended", "killed"}

\* C37: under any interleaving of the worker and the stop escalation of the
\* UI, the status ends as force_killed exactly when the worker was
\* terminated before it wrote its terminal status; force_killed never
\* replaces a terminal status the worker wrote; no status patch is lost.
C37_ForceKilledOnlyBeforeStatus ==
    /\ [](SkSettled =>
            ((skFile.status = "force_killed") <=> (skWorker = "killed" /\ skWrote = "none")))
    /\ [][(skFile.status \in TerminalStatuses) => (skFile'.status # "force_killed")]_vars
    /\ [](skPatches \subseteq skFile.marks)

\* the label _infer_label has for the files of a stage
LabelOfStage(stage) ==
    IF stage = "C" THEN "C_BATCH"
    ELSE IF stage \in {"A0", "CASCADE"} THEN "UNKNOWN"
    ELSE stage

\* C35: for every response file an orchestrator writes, the label the
\* auditor infers from the file name is that of the stage that wrote it, and
\* batch pricing is applied to responses of the batch flow only, whatever
\* project name, run id and response id the name holds.
C35_LabelIsStage ==
    (lbLabel # "none") =>
        /\ lbLabel = LabelOfStage(lbStage)
        /\ lbBatch <=> (lbStage = "C")

\* ceil(n / c)
CeilDiv(n, c) == (n + c - 1) \div c

\* the run is a non-batch GENERATE or MODIFY run with a long prompt
LongPromptRun ==
    ~igCfg.batch /\ igCfg.mode \in {"GENERATE", "MODIFY"} /\ igCfg.len > IngestThreshold

\* C31: a non-batch GENERATE or MODIFY run with a prompt above the threshold
\* sends ceil(len / chunk) ingest requests in order, the first chained from
\* the response id the user gave (if any), each later one from the id of the
\* ingest response before it, and the plan request (A1 / B1) is chained from
\* the id of the last ingest response.
C31_IngestChain ==
    LongPromptRun =>
        /\ \A k \in 1..Len(igReqs) :
             igReqs[k].stage = "A0" =>
                /\ igReqs[k].part = k
                /\ k <= CeilDiv(igCfg.len, IngestChunk)
                /\ igReqs[k].prev = (IF k = 1 THEN igCfg.responseId ELSE IngestId(k - 1))
        /\ (igPc = "plan") =>
             LET n == CeilDiv(igCfg.len, IngestChunk) IN
             /\ Len(igReqs) = n + 1
             /\ \A k \in 1..n : igReqs[k].stage = "A0"
             /\ igReqs[n + 1].stage \in {"A1", "B1"}
             /\ igReqs[n + 1].prev = IngestId(n)

\* the plan request of a MODIFY run was sent after at least two ingest parts,
\* the run having started from a response id of the user
C31_Witness ==
    /\ LongPromptRun
    /\ igPc = "plan"
    /\ igCfg.mode = "MODIFY"
    /\ igCfg.responseId = BaseId
    /\ Len(igReqs) >= 3

\* a GENERATE run that is not a batch, with cfg.resume_files supplied
ResumedGenerate ==
    wkWorker = "run" /\ rnCfg.mode = "GENERATE" /\ ~rnCfg.batch /\ rnCfg.resume

\* C32: a GENERATE run given resume_files skips A1 and A2, generates each
\* resume file and completes: unless it was stopped or a remote call or a
\* capability check failed, it ends with status "completed".
C32_ResumeCompletes ==
    (ResumedGenerate /\ wkPc = "end") =>
        \/ wkStatus = "completed"
        \/ wkExc \in {"error", "STOP_REQUESTED", "previous_response_id",
                      RejectsMessage, IngestMessage}

\* the record's errors map holds an explicit rejection of the parameter
HoldsRejection(caps, key) ==
    \E k \in ErrKeys : ErrIndicatesParamUnsupported(caps.errors[k], key)

\* C33: in every capability record a probe produced or the cache loaded, a
\* flag that defaults to true (previous_response_id, temperature) is false
\* only if the record's errors hold an explicit rejection of that parameter.
C33_FlagFalseOnlyOnRejection ==
    \A i \in 1..Len(pbData) :
        /\ ~pbData[i].supportsTemp => HoldsRejection(pbData[i], "temperature")
        /\ ~pbData[i].supportsPrev => HoldsRejection(pbData[i], "previous_response_id")

\* C34: no payload RunWorker builds carries `temperature` when the snapshot
\* has supports_temperature = false, and none carries file_search tools
\* unless the snapshot has supports_file_search = true.
C34_PayloadFollowsSnapshot ==
    \A i \in 1..Len(plReqs) :
        /\ plCfg.temperature = "false" => plReqs[i].temperature = "none"
        /\ plReqs[i].tools => plCfg.fileSearch = "true"

\* a MODIFY run of a model without temperature has sent its B3 request with
\* file_search tools and an ingest request before it
C34_Witness ==
    /\ plCfg.temperature = "false"
    /\ plCfg.mode = "MODIFY"
    /\ Len(plReqs) = 4
    /\ plReqs[1].stage = "A0"
    /\ plReqs[4].stage = "B3" /\ plReqs[4].tools

\* C38: no file of the IN tree that the scan marks sensitive or not
\* uploadable is sent to the remote service, by itself or inside an archive.
C38_OnlyUploadableSent ==
    \A s \in upSent :
        /\ ScanItem(upTree[s.file]).uploadable
        /\ ~ScanItem(upTree[s.file]).sensitive

====
